---- MODULE Spec2Model ----
(***************************************************************************)
(* A model of send-bills: recurring-bill schedules, the bills generated    *)
(* from them, the batch endpoints that send, sweep and notify, and the     *)
(* reconciliation of a bank statement against the outstanding bills.       *)
(*                                                                         *)
(* Time is counted in calendar months: a timestamp t stands for the first  *)
(* day of month t (month 0 is January 2025) at 00:00.  On such timestamps  *)
(* pandas' MonthBegin(n) and DateOffset(months=1) are additions of whole   *)
(* months.  Text is a sequence of one-character strings.                   *)
(***************************************************************************)
EXTENDS Integers, Sequences, FiniteSets, TLC

(* ------------------------------ bounds --------------------------------- *)
\* rows of the Bill table
MaxBills == 2
\* rows of the Bill table where every handler runs against it
MaxBillsLife == 1
\* rows of the RecurringBill table
MaxSchedules == 2
\* the clock stops here
MaxTime == 1
\* data rows of an uploaded statement
MaxRows == 2
\* data rows of an uploaded statement with blank cells
MaxRowsFill == 3

\* longest seed of a reference
MaxSeedLen == 3
\* bills in the database of the runs over schedules that are behind
MaxBillsBehind == 3
\* requests handled at the same time
MaxRequests == 2

(* ------------------------------ values --------------------------------- *)
\* Python's None / SQL NULL, and a present value, for nullable columns
None == <<>>
Some(v) == <<v>>
IsNone(o) == o = <<>>
Val(o) == o[1]

Range(s) == {s[i] : i \in 1..Len(s)}
\* all orderings of a finite set, as sequences without repetition
Perms(S) == {p \in [1..Cardinality(S) -> S] : \A i, j \in 1..Cardinality(S) : p[i] = p[j] => i = j}
RECURSIVE Filter(_, _)
Filter(s, keep) == IF s = <<>> THEN <<>>
    ELSE (IF Head(s) \in keep THEN <<Head(s)>> ELSE <<>>) \o Filter(Tail(s), keep)
Take(s, n) == SubSeq(s, 1, IF Len(s) < n THEN Len(s) ELSE n)

(* ------------------------------ text ----------------------------------- *)
UPPER == <<"A","B","C","D","E","F","G","H","I","J","K","L","M",
           "N","O","P","Q","R","S","T","U","V","W","X","Y","Z">>
LOWER == <<"a","b","c","d","e","f","g","h","i","j","k","l","m",
           "n","o","p","q","r","s","t","u","v","w","x","y","z">>
DIGITS == <<"0","1","2","3","4","5","6","7","8","9">>
\* letters outside ASCII: str.upper() maps them, str.isalnum() accepts them
LOWER_EXT == <<"é">>
UPPER_EXT == <<"É">>
\* digits outside the decimal ones: str.isdigit() and str.isalnum() accept
\* them, int() does not
DIGITS_EXT == <<"²">>
IndexIn(s, c) == CHOOSE i \in 1..Len(s) : s[i] = c
UpperSet == Range(UPPER)
LowerSet == Range(LOWER) \cup Range(LOWER_EXT)
DigitSet == Range(DIGITS)
AlnumSet == UpperSet \cup Range(UPPER_EXT) \cup LowerSet \cup DigitSet \cup Range(DIGITS_EXT)
UpperOf == [c \in LowerSet |-> IF c \in Range(LOWER) THEN UPPER[IndexIn(LOWER, c)]
                                ELSE UPPER_EXT[IndexIn(LOWER_EXT, c)]]
\* ord(c) - ord("A") for an ASCII capital, int(c) for a digit
OrdFromA == [c \in UpperSet |-> IndexIn(UPPER, c) - 1]
DigitValue == [c \in DigitSet |-> IndexIn(DIGITS, c) - 1]
\* str.upper() of one character
upper(c) == IF c \in LowerSet THEN UpperOf[c] ELSE c
\* str.isalnum() of one character
isalnum(c) == c \in AlnumSet
\* str.isdigit() of one character
isdigit(c) == c \in DigitSet \cup Range(DIGITS_EXT)
\* the decimal digits of a natural number, and back
RECURSIVE str(_)
str(n) == IF n < 10 THEN <<DIGITS[n + 1]>> ELSE str(n \div 10) \o <<DIGITS[(n % 10) + 1]>>
\* '%02d' % n
fmt02d(n) == IF n < 10 THEN <<"0">> \o str(n) ELSE str(n)

(* --------------------------- references.py ----------------------------- *)
RECURSIVE cleanup_reference(_)
cleanup_reference(text) ==
    IF text = <<>> THEN <<>>
    ELSE (IF isalnum(upper(Head(text))) THEN <<upper(Head(text))>> ELSE <<>>)
         \o cleanup_reference(Tail(text))

convert_letter(char) ==
    IF char \in UpperSet THEN str(OrdFromA[char] + 10)
    ELSE IF isdigit(char) THEN <<char>>
    ELSE <<>>

RECURSIVE letter_to_number(_)
letter_to_number(text) ==
    IF text = <<>> THEN <<>>
    ELSE convert_letter(Head(text)) \o letter_to_number(Tail(text))

\* int(number) % 97 of a digit string, digit by digit
RECURSIVE Mod97(_, _)
Mod97(digits, acc) ==
    IF digits = <<>> THEN acc
    ELSE Mod97(Tail(digits), (acc * 10 + DigitValue[Head(digits)]) % 97)
checksum(number) == Mod97(number, 0)
\* stdnum.iso7064.mod_97_10.calc_check_digits
calc_check_digits(number) == fmt02d((98 - 100 * checksum(number)) % 97)
\* it fails on a character that int(x, 36) does not read
calc_check_digits_raises(number) ==
    \E i \in 1..Len(number) : number[i] \notin DigitSet \cup UpperSet \cup Range(LOWER)

\* the value generate_invoice_reference returns, when it returns
generate_invoice_reference(invoice_number) ==
    LET clean_reference == cleanup_reference(invoice_number)
        raw_reference == clean_reference \o <<"R", "F">>
        as_number == letter_to_number(raw_reference)
        check_digits == calc_check_digits(as_number)
    IN <<"R", "F">> \o check_digits \o clean_reference
\* whether it raises instead: the error of calc_check_digits, a ValueError
generate_invoice_reference_raises(invoice_number) ==
    calc_check_digits_raises(letter_to_number(cleanup_reference(invoice_number) \o <<"R", "F">>))

(* ------------------------------ dates ---------------------------------- *)
\* pd.Timestamp(t).strftime("%Y%m%d") of the first day of month t
strftime_Ymd(t) == str(2025 + (t \div 12)) \o fmt02d((t % 12) + 1) \o <<"0", "1">>
\* pd.Timestamp(t) + pd.DateOffset(months=1)
DateOffset_months_1(t) == t + 1
\* the months around the clock's range
KnownDates == (0 - 2)..(MaxTime + 2)

(* ------------------------------ state ---------------------------------- *)
\* bills, schedules      the Bill and RecurringBill tables; a row's pk is its index
\* contacts, creditors   the Contact and Creditor tables
\* now                   django.utils.timezone.now()
\* last                  the handler that ran last, whether it repeats the one
\*                       before, its response and, for send-pending and the
\*                       notification, the steps it took
\* requests              the requests that are being handled, each with what
\*                       its view has read and done so far; a view that is
\*                       modelled as one step never appears in it
VARIABLES bills, schedules, contacts, creditors, now, last, requests
vars == <<bills, schedules, contacts, creditors, now, last, requests>>
parties == <<contacts, creditors>>

\* Bill.BillStatus
PENDING == "pending"
SENT == "sent"
PAID == "paid"
OVERDUE == "overdue"
BillStatus == {PENDING, SENT, PAID, OVERDUE}

\* the conftest fixtures
contact_fixture == [name |-> "Contact A",
    email |-> <<"c","o","n","t","a","c","t","_","a","@","e","x","a","m","p","l","e",".","c","o","m">>]
creditor_fixture == [name |-> "Test Creditor AG", iban |-> "CH801503791J674321901",
    email |-> "creditor@example.com"]
creditor2_fixture == [name |-> "Test Creditor 2", iban |-> "CH9300772011623852957",
    email |-> "creditor2@example.com"]
contact_b_email ==
    <<"c","o","n","t","a","c","t","_","b","@","e","x","a","m","p","l","e",".","c","o","m">>
contact2_fixture == [name |-> "Contact B", email |-> contact_b_email]

\* the descriptions of a bill
Manual_Bill == <<"M","a","n","u","a","l"," ","B","i","l","l">>
One_off_Internet_Bill ==
    <<"O","n","e","-","o","f","f"," ","I","n","t","e","r","n","e","t"," ","B","i","l","l">>

(* ------------------------- models.py: offsets --------------------------- *)
ALLOWED_DATE_OFFSETS == {"BusinessDay", "MonthEnd", "MonthBegin", "BusinessMonthEnd",
    "BusinessMonthBegin", "SemiMonthEnd", "SemiMonthBegin", "Week", "WeekOfMonth",
    "LastWeekOfMonth", "QuarterEnd", "QuarterBegin", "YearEnd", "YearBegin", "Easter"}

\* A keyword mapping is a sequence of entries [key, type, value]; value is the
\* integer given when type is "int" and 0 otherwise.  The type "float" stands
\* for a number with a fractional part, such as 2.5.
kw(key, type, value) == [key |-> key, type |-> type, value |-> value]
\* pandas' MonthBegin(**kwargs) raises TypeError for an unknown keyword and for a
\* count that int() does not convert
offset_class_TypeError(kwargs) ==
    \E i \in 1..Len(kwargs) :
        \/ kwargs[i].key \notin {"n", "normalize"}
        \/ kwargs[i].key = "n" /\ kwargs[i].type \notin {"int", "float"}
\* and ValueError for a count that int() converts to another number
\* (BaseOffset._validate_n: n != int(n))
offset_class_ValueError(kwargs) ==
    \E i \in 1..Len(kwargs) : kwargs[i].key = "n" /\ kwargs[i].type = "float"
kwarg_n(kwargs) ==
    IF \E i \in 1..Len(kwargs) : kwargs[i].key = "n"
    THEN kwargs[CHOOSE i \in 1..Len(kwargs) : kwargs[i].key = "n"].value
    ELSE 1

\* the outcome of a call: a value, or the exception it raised
Ok(v) == [raised |-> "", value |-> <<v>>]
Raise(e) == [raised |-> e, value |-> <<>>]

get_date_offset_instance(offset_name, kwargs) ==
    IF offset_name \notin ALLOWED_DATE_OFFSETS THEN Raise("ValidationError")
    ELSE IF offset_class_TypeError(kwargs) THEN Raise("ValidationError")
    ELSE IF offset_class_ValueError(kwargs) THEN Raise("ValueError")
    ELSE Ok([name |-> offset_name, n |-> kwarg_n(kwargs)])

\* pd.Timestamp(t) + offset, for t the first day of a month: MonthBegin(n) moves
\* n months (n = 0 rolls forward, and t is already a month's first day)
apply_offset(t, offset) == t + offset.n

(* ------------------------ models.py: templates -------------------------- *)
\* A description template is [kind, text]: literal text, followed by one
\* placeholder unless kind is "text".  jinja2.Environment() is built with its
\* default Undefined, which renders an unknown name as empty text and raises
\* only when an attribute of the unknown name is taken.
tpl(kind, text) == [kind |-> kind, text |-> text]
template_render(template, billing_date) ==
    CASE template.kind = "text" -> Ok(template.text)
      [] template.kind = "billing_date.year" ->
            Ok(template.text \o str(2025 + (billing_date \div 12)))
      [] template.kind = "undefined_name" -> Ok(template.text)
      [] template.kind = "undefined_name.attr" -> Raise("UndefinedError")
      [] OTHER -> Raise("TemplateSyntaxError")

(* --------------------------- models.py: Bill ---------------------------- *)
\* Bill(...): the fields given, the others at their defaults
Bill(contact, creditor, amount, currency, language, additional_information, recurring_bill, billing_date) ==
    [contact |-> contact, creditor |-> creditor, amount |-> amount,
     currency |-> currency, language |-> language,
     additional_information |-> additional_information,
     recurring_bill |-> recurring_bill, reference_number |-> <<>>,
     status |-> PENDING, billing_date |-> billing_date, due_date |-> None,
     sent_at |-> None, paid_at |-> None]

\* the body of Bill._generate_reference_number, on the three values it reads
reference_number_of(additional_information, billing_date, email) ==
    LET reference_date == strftime_Ymd(billing_date)
        contact_part == Take(cleanup_reference(email), 9)
        info_part == Take(cleanup_reference(additional_information), 4)
        base_reference == info_part \o reference_date \o contact_part
    IN generate_invoice_reference(base_reference)
\* its values on the texts and dates of the fixtures, computed once
KnownReferenceInputs ==
    {<<d, t, e>> : d \in {Manual_Bill, One_off_Internet_Bill}, t \in KnownDates,
                   e \in {contact_fixture.email, contact_b_email}}
ReferenceMemo == [k \in KnownReferenceInputs |-> reference_number_of(k[1], k[2], k[3])]

_generate_reference_number(self, contact_table) ==
    LET key == <<self.additional_information, self.billing_date, contact_table[self.contact].email>>
    IN IF key \in KnownReferenceInputs THEN ReferenceMemo[key]
       ELSE reference_number_of(key[1], key[2], key[3])

\* variant: the reference is generated at every save
Bill_save_always_generates(self, has_pk, contact_table) ==
    LET with_due == IF ~has_pk /\ IsNone(self.due_date)
                    THEN [self EXCEPT !.due_date = Some(DateOffset_months_1(self.billing_date))]
                    ELSE self
    IN [with_due EXCEPT !.reference_number = _generate_reference_number(with_due, contact_table)]

\* variant: the due date is derived whenever it is missing, at any save
Bill_save_derives_due_date_again(self, has_pk, contact_table) ==
    LET with_due == IF IsNone(self.due_date)
                    THEN [self EXCEPT !.due_date = Some(DateOffset_months_1(self.billing_date))]
                    ELSE self
    IN IF with_due.reference_number = <<>>
       THEN [with_due EXCEPT !.reference_number = _generate_reference_number(with_due, contact_table)]
       ELSE with_due

\* Bill.save(): the row as it is written; has_pk is FALSE on the first save
Bill_save(self, has_pk, contact_table) ==
    LET with_due == IF ~has_pk /\ IsNone(self.due_date)
                    THEN [self EXCEPT !.due_date = Some(DateOffset_months_1(self.billing_date))]
                    ELSE self
    IN IF with_due.reference_number = <<>>
       THEN [with_due EXCEPT !.reference_number = _generate_reference_number(with_due, contact_table)]
       ELSE with_due

\* whether Bill.save() raises: the reference is to be generated and
\* generate_invoice_reference raises on its seed
Bill_save_raises(self, has_pk, contact_table) ==
    LET key == <<self.additional_information, self.billing_date, contact_table[self.contact].email>>
    IN /\ self.reference_number = <<>>
       /\ key \notin KnownReferenceInputs
       /\ generate_invoice_reference_raises(Take(cleanup_reference(key[1]), 4)
                                            \o strftime_Ymd(key[2])
                                            \o Take(cleanup_reference(key[3]), 9))

(* ----------------------- models.py: RecurringBill ----------------------- *)
\* variant: clean() without the check of the dates
RecurringBill_clean_frequency_only(self, has_pk) ==
    LET offset == get_date_offset_instance(self.frequency, self.frequency_kwargs)
    IN IF offset.raised = "ValidationError" THEN "frequency"
       ELSE offset.raised

\* RecurringBill.clean(): "" when the row is valid, the field in error when it
\* raises ValidationError, and else the exception that passes through it
RecurringBill_clean(self, has_pk) ==
    LET offset == get_date_offset_instance(self.frequency, self.frequency_kwargs)
    IN IF ~has_pk /\ ~IsNone(self.next_billing_date)
                 /\ Val(self.next_billing_date) < self.start_date
       THEN "next_billing_date"
       ELSE IF offset.raised = "ValidationError" THEN "frequency"
       ELSE offset.raised

\* variant: a new row always starts its cursor at the start date
RecurringBill_save_always_defaults(self, has_pk) ==
    LET defaulted == IF ~has_pk
                     THEN [self EXCEPT !.next_billing_date = Some(self.start_date)]
                     ELSE self
    IN IF RecurringBill_clean(defaulted, has_pk) # ""
       THEN Raise(RecurringBill_clean(defaulted, has_pk))
       ELSE Ok(defaulted)

\* RecurringBill.save(): the row as it is written, or what full_clean() raised
RecurringBill_save(self, has_pk) ==
    LET defaulted == IF ~has_pk /\ IsNone(self.next_billing_date)
                     THEN [self EXCEPT !.next_billing_date = Some(self.start_date)]
                     ELSE self
    IN IF RecurringBill_clean(defaulted, has_pk) # ""
       THEN Raise(RecurringBill_clean(defaulted, has_pk))
       ELSE Ok(defaulted)

\* variant: the rule applied until the date is later than the current time
RECURSIVE catch_up(_, _)
catch_up(t, offset) ==
    IF offset.n > 0 /\ apply_offset(t, offset) <= now
    THEN catch_up(apply_offset(t, offset), offset)
    ELSE apply_offset(t, offset)
calculate_next_billing_date_catches_up(self) ==
    LET offset == get_date_offset_instance(self.frequency, self.frequency_kwargs)
    IN IF offset.raised # "" THEN Raise(offset.raised)
       ELSE Ok(catch_up(Val(self.next_billing_date), Val(offset.value)))

\* variant: the rule applied to the current time
calculate_next_billing_date_from_now(self) ==
    LET offset == get_date_offset_instance(self.frequency, self.frequency_kwargs)
    IN IF offset.raised # "" THEN Raise(offset.raised)
       ELSE Ok(apply_offset(now, Val(offset.value)))

calculate_next_billing_date(self) ==
    LET offset == get_date_offset_instance(self.frequency, self.frequency_kwargs)
    IN IF offset.raised # "" THEN Raise(offset.raised)
       ELSE Ok(apply_offset(Val(self.next_billing_date), Val(offset.value)))

\* variant: the bill built without the schedule's currency, which leaves the
\* field at its default
generate_bill_default_currency(self, pk) ==
    LET rendered == template_render(self.description_template, Val(self.next_billing_date))
    IN IF rendered.raised # "" THEN Raise(rendered.raised)
       ELSE Ok(Bill(self.contact, self.creditor, self.amount, "CHF",
                    self.language, Val(rendered.value), Some(pk),
                    Val(self.next_billing_date)))

\* RecurringBill.generate_bill(): the unsaved bill, or the error of the rendering
generate_bill(self, pk) ==
    LET rendered == template_render(self.description_template, Val(self.next_billing_date))
    IN IF rendered.raised # "" THEN Raise(rendered.raised)
       ELSE Ok(Bill(self.contact, self.creditor, self.amount, self.currency,
                    self.language, Val(rendered.value), Some(pk),
                    Val(self.next_billing_date)))

(* ------------------------- utils.py: statements ------------------------- *)
\* The detail table of a statement is a sequence of rows; a cell is None when
\* it is blank (pandas' NA) and Some(text) otherwise.
Row(date, amount, currency, desc, iban) ==
    [Data_dell_operazione |-> date, Importo_singolo |-> amount, Moneta |-> currency,
     Descrizione1 |-> desc, Descrizione2 |-> iban]
Columns == {"Data_dell_operazione", "Importo_singolo", "Moneta", "Descrizione1", "Descrizione2"}

\* DataFrame.ffill(): a blank cell takes the last value above it in its column
RECURSIVE ffill_from(_, _)
ffill_from(df, above) ==
    IF df = <<>> THEN <<>>
    ELSE LET filled == [c \in Columns |-> IF IsNone(Head(df)[c]) THEN above[c] ELSE Head(df)[c]]
         IN <<filled>> \o ffill_from(Tail(df), filled)
ffill(df) == ffill_from(df, [c \in Columns |-> None])

\* str.contains / str.split / str.replace / str.strip on text
IsPrefix(p, t) == Len(p) <= Len(t) /\ SubSeq(t, 1, Len(p)) = p
contains(t, p) == \E i \in 1..(Len(t) + 1) : IsPrefix(p, SubSeq(t, i, Len(t)))
\* the places of the separator in t
SepAt(t, sep) == {i \in 1..Len(t) : t[i] = sep}
\* t.split(sep)[1]: the text between the first separator and the second (or the end)
split_1(t, sep) ==
    LET first == CHOOSE i \in SepAt(t, sep) : \A j \in SepAt(t, sep) : i <= j
        later == {j \in SepAt(t, sep) : j > first}
        stop == IF later = {} THEN Len(t) + 1
                ELSE CHOOSE j \in later : \A k \in later : j <= k
    IN SubSeq(t, first + 1, stop - 1)
RECURSIVE replace_none(_, _)
replace_none(t, c) == IF t = <<>> THEN <<>>
    ELSE (IF Head(t) = c THEN <<>> ELSE <<Head(t)>>) \o replace_none(Tail(t), c)
Whitespace == {" ", "\t"}
RECURSIVE lstrip(_)
lstrip(t) == IF t # <<>> /\ Head(t) \in Whitespace THEN lstrip(Tail(t)) ELSE t
RECURSIVE rstrip(_)
rstrip(t) == IF t # <<>> /\ t[Len(t)] \in Whitespace THEN rstrip(SubSeq(t, 1, Len(t) - 1)) ELSE t
strip(t) == rstrip(lstrip(t))

SCOR == <<"S","C","O","R",":">>
\* payments_df["reference_number"] of a row that holds the marker
extract_reference_number(desc) == strip(replace_none(split_1(desc, ":"), " "))

\* A decimal number is [m, e]: m / 10^e, with no trailing zero in the fraction.
RECURSIVE normalize(_)
normalize(d) == IF d.e > 0 /\ d.m % 10 = 0 THEN normalize([m |-> d.m \div 10, e |-> d.e - 1]) ELSE d
RECURSIVE digits_value(_, _)
digits_value(t, acc) == IF t = <<>> THEN acc
    ELSE digits_value(Tail(t), acc * 10 + DigitValue[Head(t)])
\* DecimalField.to_python(text): decimal.Decimal(text), or ValidationError
Decimal_to_python(cell) ==
    IF IsNone(cell) THEN Raise("ValidationError")
    ELSE LET t == Val(cell)
             dots == SepAt(t, ".")
             ds == replace_none(t, ".")
         IN IF ds = <<>> \/ Cardinality(dots) > 1 \/ \E i \in 1..Len(ds) : ds[i] \notin DigitSet
            THEN Raise("ValidationError")
            ELSE Ok(normalize([m |-> digits_value(ds, 0),
                    e |-> IF dots = {} THEN 0 ELSE Len(t) - (CHOOSE i \in dots : TRUE)]))
\* the amount column of a bill, kept in hundredths
amount_Decimal(cents) == normalize([m |-> cents, e |-> 2])

\* the text of the first day of month t in a statement, and pd.Timestamp(text, tz)
iso_date(t) == str(2025 + (t \div 12)) \o <<"-">> \o fmt02d((t % 12) + 1) \o <<"-", "0", "1">>
IsoDateOf == [t \in KnownDates |-> iso_date(t)]
Timestamp(cell) ==
    IF IsNone(cell) \/ ~\E t \in KnownDates : IsoDateOf[t] = Val(cell) THEN Raise("ValueError")
    ELSE Ok(CHOOSE t \in KnownDates : IsoDateOf[t] = Val(cell))
\* CharField.to_python of a cell: the text, or str(pd.NA)
CharField_to_python(cell) == IF IsNone(cell) THEN "<NA>" ELSE Val(cell)

\* ---- the statements that are uploaded
\* the reference of the bill "Manual Bill" of month t for the fixture contact
Manual_Bill_reference ==
    [t \in 0..(MaxTime + 1) |-> ReferenceMemo[<<Manual_Bill, t, contact_fixture.email>>]]
\* a statement row paying the "Manual Bill" of month t on the first day of month d
Payment(d, t) ==
    Row(Some(IsoDateOf[d]), Some(<<"2","0",".","4","0">>), Some("CHF"),
        Some(SCOR \o <<" ">> \o Manual_Bill_reference[t]), Some(creditor_fixture.iban))

Statements(d) == {<<Payment(d, t)>> : t \in 0..MaxTime}
\* a row of month 1 under the marker
PayRow(amount, currency, reference, iban) ==
    Row(Some(IsoDateOf[1]), Some(amount), Some(currency),
        Some(SCOR \o <<" ">> \o reference), Some(iban))
Text_20_40 == <<"2","0",".","4","0">>
RowsPay ==
    {PayRow(Text_20_40, "CHF", Manual_Bill_reference[0], creditor_fixture.iban),
     PayRow(<<"1","8",".","6","0">>, "CHF", Manual_Bill_reference[0], creditor_fixture.iban),
     PayRow(Text_20_40, "CHF", Manual_Bill_reference[0], creditor2_fixture.iban),
     PayRow(Text_20_40, "EUR", Manual_Bill_reference[0], creditor_fixture.iban),
     PayRow(Text_20_40, "CHF", Manual_Bill_reference[1], creditor_fixture.iban),
     PayRow(<<"a","b","c">>, "CHF", Manual_Bill_reference[0], creditor_fixture.iban),
     Row(None, None, None, Some(SCOR \o <<" ">> \o Manual_Bill_reference[0]), None),
     Row(Some(IsoDateOf[0]), Some(<<"2","0",".","4">>), Some("CHF"),
         Some(<<"B","o","n","i","f","i","c","o">>), Some(creditor_fixture.iban))}
\* the statements of at most MaxRows rows; the first is the header alone
StatementsPay == UNION {[1..n -> RowsPay] : n \in 0..MaxRows}

(* ------------------------------ handlers -------------------------------- *)
\* what a handler leaves in `last`
Handled(op, rep, data) == [op |-> op, rep |-> rep, data |-> data]
\* the same for a handler that sends mail, with the steps it took in their order
Traced(op, data, trace) == [op |-> op, rep |-> FALSE, data |-> data, trace |-> trace]

\* variant: the block without the transaction
atomic_no_rollback(before, written, raised) == written

\* with transaction.atomic(): the writes made inside the block are kept when it
\* ends normally and undone when an exception leaves it
atomic(before, written, raised) == IF raised # "" THEN before ELSE written

\* the rows of a queryset that sets no order, as the database returns them: by pk
RECURSIVE by_pk(_)
by_pk(pks) == IF pks = {} THEN <<>>
    ELSE LET least == CHOOSE pk \in pks : \A other \in pks : pk <= other
         IN <<least>> \o by_pk(pks \ {least})

\* ---- MarkOverdueBillsAPIView.post
\* variants of the filter, against which the properties of the sweep are tried:
\* due_date__lt in place of due_date__lte, and an exclude() without OVERDUE
overdue_queryset_lt(table, t) ==
    {pk \in 1..Len(table) :
        /\ ~IsNone(table[pk].due_date) /\ Val(table[pk].due_date) < t
        /\ table[pk].status \notin {OVERDUE, PAID}}
overdue_queryset_keeps_overdue(table, t) ==
    {pk \in 1..Len(table) :
        /\ ~IsNone(table[pk].due_date) /\ Val(table[pk].due_date) <= t
        /\ table[pk].status \notin {PAID}}

\* variant: an exclude() without PAID
overdue_queryset_takes_paid(table, t) ==
    {pk \in 1..Len(table) :
        /\ ~IsNone(table[pk].due_date) /\ Val(table[pk].due_date) <= t
        /\ table[pk].status \notin {OVERDUE}}

overdue_queryset(table, t) ==
    {pk \in 1..Len(table) :
        /\ ~IsNone(table[pk].due_date) /\ Val(table[pk].due_date) <= t
        /\ table[pk].status \notin {OVERDUE, PAID}}

\* the table after the UPDATE of the sweep at time t
mark_overdue(table, t) ==
    [pk \in 1..Len(table) |->
        IF pk \in overdue_queryset(table, t) THEN [table[pk] EXCEPT !.status = OVERDUE]
        ELSE table[pk]]

MarkOverdueBills ==
    LET hit == overdue_queryset(bills, now)
    IN /\ bills' = [pk \in 1..Len(bills) |->
                        IF pk \in hit THEN [bills[pk] EXCEPT !.status = OVERDUE] ELSE bills[pk]]
       /\ last' = Handled("mark_overdue", last.op = "mark_overdue",
                     [status |-> "success", message |-> <<"Checked and updated overdue bills.">>,
                      updated_count |-> Cardinality(hit)])
       /\ UNCHANGED <<schedules, parties, now, requests>>

\* ---- SendPendingBillsAPIView.post
\* variant: Bill.objects.all() in place of the filter on PENDING
pending_queryset_all(table) == 1..Len(table)

\* variant: every unpaid bill that was never sent
pending_queryset_unsent(table) ==
    {pk \in 1..Len(table) : table[pk].status # PAID /\ IsNone(table[pk].sent_at)}

pending_queryset(table) == {pk \in 1..Len(table) : table[pk].status = PENDING}

\* variant: send_bill_email is called first and the block holds the save alone
send_trace_call_outside(pk, sent) ==
    <<[ev |-> "send_bill_email", pk |-> pk, result |-> sent]>>
    \o (IF sent.raised = "" /\ Val(sent.value) = 1
        THEN <<[ev |-> "atomic.enter", pk |-> pk], [ev |-> "bill.save", pk |-> pk],
               [ev |-> "atomic.commit", pk |-> pk]>>
        ELSE <<>>)

\* what the loop body does for bill pk, in the order of the code: the block
\* is entered, send_bill_email is called, the bill is saved when the call
\* returned 1, and the block is left
send_trace(pk, sent) ==
    <<[ev |-> "atomic.enter", pk |-> pk], [ev |-> "send_bill_email", pk |-> pk, result |-> sent]>>
    \o (IF sent.raised = "" /\ Val(sent.value) = 1 THEN <<[ev |-> "bill.save", pk |-> pk]>> ELSE <<>>)
    \o <<[ev |-> IF sent.raised # "" THEN "atomic.rollback" ELSE "atomic.commit", pk |-> pk]>>

\* variant: the bill is marked SENT whenever send_bill_email returns, whatever
\* the count it returns
send_one_any_count(table, pk, sent, t) ==
    LET written == IF sent.raised = ""
                   THEN [table EXCEPT ![pk].status = SENT, ![pk].sent_at = Some(t)]
                   ELSE table
    IN [bills |-> atomic(table, written, sent.raised),
        processed |-> IF sent.raised = "" THEN 1 ELSE 0,
        errors |-> IF sent.raised # "" THEN <<[pk |-> pk, text |-> "Unexpected error"]>>
                   ELSE <<>>,
        trace |-> send_trace(pk, sent)]

\* one pass of the loop body for bill pk: sent is what send_bill_email did
send_one(table, pk, sent, t) ==
    LET written == IF sent.raised = "" /\ Val(sent.value) = 1
                   THEN [table EXCEPT ![pk].status = SENT, ![pk].sent_at = Some(t)]
                   ELSE table
    IN [bills |-> atomic(table, written, sent.raised),
        processed |-> IF sent.raised = "" /\ Val(sent.value) = 1 THEN 1 ELSE 0,
        errors |-> IF sent.raised # "" THEN <<[pk |-> pk, text |-> "Unexpected error"]>>
                   ELSE IF Val(sent.value) # 1 THEN <<[pk |-> pk, text |-> "Failed to send email"]>>
                   ELSE <<>>,
        trace |-> send_trace(pk, sent)]

RECURSIVE send_loop(_, _, _, _, _, _, _)
send_loop(order, table, mail, t, processed_bills_count, errors, trace) ==
    IF order = <<>>
    THEN [bills |-> table, processed_bills_count |-> processed_bills_count, errors |-> errors,
          trace |-> trace]
    ELSE LET one == send_one(table, Head(order), mail[Head(order)], t)
         IN send_loop(Tail(order), one.bills, mail, t,
                      processed_bills_count + one.processed, errors \o one.errors,
                      trace \o one.trace)

send_response(count, errors) ==
    IF errors # <<>>
    THEN [status |-> "partial_success",
          message |-> <<"Processed", count, "bills successfully. Encountered errors for",
                        Len(errors), "bills.">>,
          processed_count |-> count, errors |-> errors]
    ELSE [status |-> "success",
          message |-> <<"Successfully sent and updated", count, "pending bills.">>,
          processed_count |-> count]

\* what the mail transport may do with one message
MailOutcomes == {Ok(1), Ok(0), Raise("SMTPException")}

SendPendingBills ==
    LET pending == pending_queryset(bills)
    IN IF pending = {}
       THEN /\ last' = Traced("send_pending",
                          [status |-> "success", message |-> <<"No pending bills found to send.">>,
                           processed_count |-> 0], <<>>)
            /\ UNCHANGED <<bills, schedules, parties, now, requests>>
       ELSE \E mail \in [pending -> MailOutcomes] :
              LET run == send_loop(by_pk(pending), bills, mail, now, 0, <<>>, <<>>)
              IN /\ bills' = run.bills
                 /\ last' = Traced("send_pending",
                               send_response(run.processed_bills_count, run.errors), run.trace)
                 /\ UNCHANGED <<schedules, parties, now, requests>>

\* ---- NotifyOverdueBillsAPIView.post
\* variant: the filter that takes the sent bills as well
notify_queryset_sent_too(table) == {pk \in 1..Len(table) : table[pk].status \in {SENT, OVERDUE}}

notify_queryset(table) == {pk \in 1..Len(table) : table[pk].status = OVERDUE}

\* the loop: trace holds the calls of send_overdue_email made so far
RECURSIVE notify_loop(_, _, _, _, _)
notify_loop(order, mail, total_sent_notifications, errors, trace) ==
    IF order = <<>>
    THEN [total_sent_notifications |-> total_sent_notifications, errors |-> errors,
          trace |-> trace]
    ELSE LET sent == mail[Head(order)]
             called == Append(trace, [ev |-> "send_overdue_email", pk |-> Head(order),
                                      result |-> sent])
         IN IF sent.raised # ""
            THEN notify_loop(Tail(order), mail, total_sent_notifications,
                             Append(errors, [pk |-> Head(order), text |-> "Unexpected error"]),
                             called)
            ELSE IF Val(sent.value) = 1
            THEN notify_loop(Tail(order), mail, total_sent_notifications + 1, errors, called)
            ELSE notify_loop(Tail(order), mail, total_sent_notifications,
                             Append(errors, [pk |-> Head(order), text |-> "Failed to send notification"]),
                             called)

NotifyOverdueBills ==
    LET overdue == notify_queryset(bills)
    IN /\ UNCHANGED <<bills, schedules, parties, now, requests>>
       /\ IF overdue = {}
          THEN last' = Traced("notify_overdue",
                         [status |-> "success", message |-> <<"No overdue bills found to notify.">>,
                          notifications |-> 0, errors |-> <<>>], <<>>)
          ELSE \E mail \in [overdue -> MailOutcomes] :
                 LET run == notify_loop(by_pk(overdue), mail, 0, <<>>, <<>>)
                 IN last' = Traced("notify_overdue",
                      [status |-> IF run.errors # <<>> THEN "partial_success" ELSE "success",
                       message |-> IF run.errors # <<>>
                                   THEN <<"Sent", run.total_sent_notifications,
                                          "overdue notifications successfully. Encountered errors for",
                                          Len(run.errors), "bills.">>
                                   ELSE <<"Successfully sent", run.total_sent_notifications,
                                          "overdue bill notifications.">>,
                       notifications |-> run.total_sent_notifications, errors |-> run.errors],
                      run.trace)

\* ---- GenerateRecurringBillsAPIView.post
\* variant: the filter without is_active=True
due_queryset_ignores_is_active(table, t) ==
    {pk \in 1..Len(table) : Val(table[pk].next_billing_date) <= t}

due_queryset(table, t) ==
    {pk \in 1..Len(table) : table[pk].is_active /\ Val(table[pk].next_billing_date) <= t}
\* variant: the rows in the order of their primary keys
ordered_by_pk(table, pks) == {by_pk(pks)}

\* order_by("next_billing_date"): any order of the rows that ascends by the key
ordered_by_next_billing_date(table, pks) ==
    {o \in Perms(pks) : \A i, j \in 1..Len(o) :
        i < j => Val(table[o[i]].next_billing_date) <= Val(table[o[j]].next_billing_date)}

\* a persistence error the database may raise in a step of the loop body
Faults == {"", "Bill.save", "calculate_next_billing_date", "RecurringBill.save"}

\* the loop body for schedule pk, rb being the row as the query returned it:
\* db is [bills, schedules]
generate_one(db, rb, pk, fault, contact_table) ==
    LET new_bill == generate_bill(rb, pk)
        saved == Bill_save(Val(new_bill.value), FALSE, contact_table)
        db1 == [db EXCEPT !.bills = Append(@, saved)]
        next == calculate_next_billing_date(rb)
        rb2 == [rb EXCEPT !.next_billing_date = Some(Val(next.value))]
        cleaned == RecurringBill_save(rb2, TRUE)
        db2 == [db1 EXCEPT !.schedules[pk].next_billing_date = rb2.next_billing_date]
        raised == IF new_bill.raised # "" THEN new_bill.raised
                  ELSE IF fault = "Bill.save" THEN "IntegrityError"
                  ELSE IF next.raised # "" THEN next.raised
                  ELSE IF fault = "calculate_next_billing_date" THEN "OutOfBoundsDatetime"
                  ELSE IF cleaned.raised # "" THEN "ValidationError"
                  ELSE IF fault = "RecurringBill.save" THEN "OperationalError"
                  ELSE ""
        written == IF new_bill.raised # "" \/ fault = "Bill.save" THEN db
                   ELSE IF next.raised # "" \/ fault = "calculate_next_billing_date" THEN db1
                   ELSE IF cleaned.raised # "" \/ fault = "RecurringBill.save" THEN db1
                   ELSE db2
    IN [db |-> atomic(db, written, raised), raised |-> raised]

\* variant: the loop that ends at the first failure
RECURSIVE generate_loop_stops(_, _, _, _, _, _, _)
generate_loop_stops(order, rows, db, faults, contact_table, generated_bills_count, errors) ==
    IF order = <<>>
    THEN [db |-> db, generated_bills_count |-> generated_bills_count, errors |-> errors]
    ELSE LET pk == Head(order)
             one == generate_one(db, rows[pk], pk, faults[pk], contact_table)
         IN IF one.raised = ""
            THEN generate_loop_stops(Tail(order), rows, one.db, faults, contact_table,
                                     generated_bills_count + 1, errors)
            ELSE [db |-> one.db, generated_bills_count |-> generated_bills_count,
                  errors |-> Append(errors, [pk |-> pk, text |-> "Unexpected error"])]

RECURSIVE generate_loop(_, _, _, _, _, _, _)
generate_loop(order, rows, db, faults, contact_table, generated_bills_count, errors) ==
    IF order = <<>>
    THEN [db |-> db, generated_bills_count |-> generated_bills_count, errors |-> errors]
    ELSE LET pk == Head(order)
             one == generate_one(db, rows[pk], pk, faults[pk], contact_table)
         IN IF one.raised = ""
            THEN generate_loop(Tail(order), rows, one.db, faults, contact_table,
                               generated_bills_count + 1, errors)
            ELSE generate_loop(Tail(order), rows, one.db, faults, contact_table,
                               generated_bills_count,
                               Append(errors, [pk |-> pk, text |-> "Unexpected error"]))

\* variant: the response that never reports partial_success
generate_response_always_success(count, errors) ==
    [status |-> "success",
     message |-> <<"Successfully generated", count, "bills from recurring schedules.">>,
     generated_count |-> count]

generate_response(count, errors) ==
    IF errors # <<>>
    THEN [status |-> "partial_success",
          message |-> <<"Generated", count, "bills successfully. Encountered errors for",
                        Len(errors), "recurring bills.">>,
          generated_count |-> count, errors |-> errors]
    ELSE [status |-> "success",
          message |-> <<"Successfully generated", count, "bills from recurring schedules.">>,
          generated_count |-> count]

GenerateRecurringBills(capacity) ==
    LET due == due_queryset(schedules, now)
    IN IF due = {}
       THEN /\ last' = Handled("generate", FALSE,
                          [status |-> "success",
                           message |-> <<"No active recurring bills found to process.">>,
                           generated_count |-> 0])
            /\ UNCHANGED <<bills, schedules, parties, now, requests>>
       ELSE /\ Len(bills) + Cardinality(due) <= capacity
            /\ \E order \in ordered_by_next_billing_date(schedules, due), faults \in [due -> Faults] :
                 LET run == generate_loop(order, schedules,
                                          [bills |-> bills, schedules |-> schedules],
                                          faults, contacts, 0, <<>>)
                 IN /\ bills' = run.db.bills
                    /\ schedules' = run.db.schedules
                    /\ last' = Handled("generate", FALSE,
                                  generate_response(run.generated_bills_count, run.errors))
            /\ UNCHANGED <<parties, now, requests>>

\* ---- GenerateRecurringBillsAPIView.post, statement by statement, for
\* requests that are handled at the same time.  Each request has its own
\* queryset and its own RecurringBill instances; what it shares with the
\* others is the database.  A statement between two accesses to the database
\* touches the request alone, so the steps are the accesses: exists(), the
\* query of the for loop, one transaction per schedule, the response.
with_request(r, request) ==
    [q \in DOMAIN requests \cup {r} |-> IF q = r THEN request ELSE requests[q]]
without_request(r) == [q \in DOMAIN requests \ {r} |-> requests[q]]

\* active_recurring_bills is built with now() and exists() is asked
GenerateRecurringBills_exists(r) ==
    /\ r \in 1..MaxRequests /\ r \notin DOMAIN requests
    /\ IF due_queryset(schedules, now) = {}
       THEN /\ last' = Handled("generate", FALSE,
                          [status |-> "success",
                           message |-> <<"No active recurring bills found to process.">>,
                           generated_count |-> 0])
            /\ UNCHANGED requests
       ELSE /\ requests' = with_request(r, [view |-> "generate", at |-> "for", t |-> now,
                                            rows |-> <<>>, todo |-> <<>>,
                                            generated_bills_count |-> 0, errors |-> <<>>])
            /\ UNCHANGED last
    /\ UNCHANGED <<bills, schedules, parties, now>>

\* for rb in active_recurring_bills: the queryset is evaluated, and the rows
\* it returns are the instances the loop works on
GenerateRecurringBills_for(r) ==
    /\ r \in DOMAIN requests /\ requests[r].view = "generate" /\ requests[r].at = "for"
    /\ \E order \in ordered_by_next_billing_date(schedules, due_queryset(schedules, requests[r].t)) :
          requests' = with_request(r, [requests[r] EXCEPT !.at = "body", !.rows = schedules,
                                                          !.todo = order])
    /\ UNCHANGED <<bills, schedules, parties, now, last>>

\* the loop body for the next instance: its transaction, on the database as
\* it is now
GenerateRecurringBills_body(r, capacity) ==
    /\ r \in DOMAIN requests /\ requests[r].view = "generate" /\ requests[r].at = "body"
    /\ requests[r].todo # <<>>
    /\ Len(bills) < capacity
    /\ \E fault \in Faults :
          LET pk == Head(requests[r].todo)
              one == generate_one([bills |-> bills, schedules |-> schedules],
                                  requests[r].rows[pk], pk, fault, contacts)
          IN /\ bills' = one.db.bills
             /\ schedules' = one.db.schedules
             /\ requests' = with_request(r,
                   [requests[r] EXCEPT
                       !.todo = Tail(@),
                       !.generated_bills_count = IF one.raised = "" THEN @ + 1 ELSE @,
                       !.errors = IF one.raised = "" THEN @
                                  ELSE Append(@, [pk |-> pk, text |-> "Unexpected error"])])
    /\ UNCHANGED <<parties, now, last>>

\* the loop is over: the response
GenerateRecurringBills_response(r) ==
    /\ r \in DOMAIN requests /\ requests[r].view = "generate" /\ requests[r].at = "body"
    /\ requests[r].todo = <<>>
    /\ last' = Handled("generate", FALSE,
                  generate_response(requests[r].generated_bills_count, requests[r].errors))
    /\ requests' = without_request(r)
    /\ UNCHANGED <<bills, schedules, parties, now>>

\* ---- SendPendingBillsAPIView.post, statement by statement, for a request
\* during which other requests are handled.  The steps are the accesses to
\* the database: exists(), the query of the for loop, one transaction per
\* bill, the response.
SendPendingBills_exists(r) ==
    /\ r \in 1..MaxRequests /\ r \notin DOMAIN requests
    /\ IF pending_queryset(bills) = {}
       THEN /\ last' = Traced("send_pending",
                          [status |-> "success", message |-> <<"No pending bills found to send.">>,
                           processed_count |-> 0], <<>>)
            /\ UNCHANGED requests
       ELSE /\ requests' = with_request(r, [view |-> "send_pending", at |-> "for",
                                            todo |-> <<>>, processed_bills_count |-> 0,
                                            errors |-> <<>>, trace |-> <<>>])
            /\ UNCHANGED last
    /\ UNCHANGED <<bills, schedules, parties, now>>

\* for bill in pending_bills: the queryset is evaluated, and the rows it
\* returns are the instances the loop works on
SendPendingBills_for(r) ==
    /\ r \in DOMAIN requests /\ requests[r].view = "send_pending" /\ requests[r].at = "for"
    /\ requests' = with_request(r, [requests[r] EXCEPT !.at = "body",
                                                      !.todo = by_pk(pending_queryset(bills))])
    /\ UNCHANGED <<bills, schedules, parties, now, last>>

\* the loop body for the next instance: bill.save(update_fields=["status",
\* "sent_at"]) writes the two fields of the instance to the row as it is now
SendPendingBills_body(r) ==
    /\ r \in DOMAIN requests /\ requests[r].view = "send_pending" /\ requests[r].at = "body"
    /\ requests[r].todo # <<>>
    /\ \E sent \in MailOutcomes :
          LET one == send_one(bills, Head(requests[r].todo), sent, now)
          IN /\ bills' = one.bills
             /\ requests' = with_request(r,
                   [requests[r] EXCEPT
                       !.todo = Tail(@),
                       !.processed_bills_count = @ + one.processed,
                       !.errors = @ \o one.errors,
                       !.trace = @ \o one.trace])
    /\ UNCHANGED <<schedules, parties, now, last>>

\* the loop is over: the response
SendPendingBills_response(r) ==
    /\ r \in DOMAIN requests /\ requests[r].view = "send_pending" /\ requests[r].at = "body"
    /\ requests[r].todo = <<>>
    /\ last' = Traced("send_pending",
                  send_response(requests[r].processed_bills_count, requests[r].errors),
                  requests[r].trace)
    /\ requests' = without_request(r)
    /\ UNCHANGED <<bills, schedules, parties, now>>

\* ---- utils.process_payments
\* payments_df["reference_number"] = ...: the rows with the column added
RECURSIVE with_reference_number(_)
with_reference_number(rows) ==
    IF rows = <<>> THEN <<>>
    ELSE <<[Data_dell_operazione |-> Head(rows).Data_dell_operazione,
            Importo_singolo |-> Head(rows).Importo_singolo,
            Moneta |-> Head(rows).Moneta,
            Descrizione1 |-> Head(rows).Descrizione1,
            Descrizione2 |-> Head(rows).Descrizione2,
            reference_number |-> extract_reference_number(Val(Head(rows).Descrizione1))]>>
         \o with_reference_number(Tail(rows))
\* variant: the rows are filtered on the marker first and forward-filled after
payments_df_filters_first(df) ==
    with_reference_number(ffill(Filter(df, {r \in Range(df) :
        ~IsNone(r.Descrizione1) /\ contains(Val(r.Descrizione1), SCOR)})))

\* payments_df: the forward-filled rows whose Descrizione1 holds the marker,
\* with their reference_number
payments_df(df) ==
    LET df_filled == ffill(df)
    IN with_reference_number(Filter(df_filled, {r \in Range(df_filled) :
           ~IsNone(r.Descrizione1) /\ contains(Val(r.Descrizione1), SCOR)}))

\* variant: the filter without currency=
row_queryset_ignores_currency(table, creditor_table, row, amount) ==
    {pk \in 1..Len(table) :
        /\ table[pk].status \in {SENT, OVERDUE}
        /\ amount_Decimal(table[pk].amount) = amount
        /\ creditor_table[table[pk].creditor].iban = CharField_to_python(row.Descrizione2)
        /\ table[pk].reference_number = row.reference_number}
\* variant: Bill.objects in place of unpaid_bills_qs
row_queryset_any_status(table, creditor_table, row, amount) ==
    {pk \in 1..Len(table) :
        /\ amount_Decimal(table[pk].amount) = amount
        /\ creditor_table[table[pk].creditor].iban = CharField_to_python(row.Descrizione2)
        /\ table[pk].currency = CharField_to_python(row.Moneta)
        /\ table[pk].reference_number = row.reference_number}

\* variant: the filter without creditor__iban=
row_queryset_ignores_iban(table, creditor_table, row, amount) ==
    {pk \in 1..Len(table) :
        /\ table[pk].status \in {SENT, OVERDUE}
        /\ amount_Decimal(table[pk].amount) = amount
        /\ table[pk].currency = CharField_to_python(row.Moneta)
        /\ table[pk].reference_number = row.reference_number}

\* unpaid_bills_qs.filter(amount=, creditor__iban=, currency=, reference_number=)
row_queryset(table, creditor_table, row, amount) ==
    {pk \in 1..Len(table) :
        /\ table[pk].status \in {SENT, OVERDUE}
        /\ amount_Decimal(table[pk].amount) = amount
        /\ creditor_table[table[pk].creditor].iban = CharField_to_python(row.Descrizione2)
        /\ table[pk].currency = CharField_to_python(row.Moneta)
        /\ table[pk].reference_number = row.reference_number}

\* variant: paid_bills_count += 1 for a row that updated something, in place
\* of += updated_count
RECURSIVE payments_loop_counts_rows(_, _, _, _)
payments_loop_counts_rows(rows, table, creditor_table, paid_bills_count) ==
    IF rows = <<>>
    THEN [bills |-> table, raised |-> "", paid_bills_count |-> paid_bills_count]
    ELSE LET row == Head(rows)
             amount == Decimal_to_python(row.Importo_singolo)
             paid_at == Timestamp(row.Data_dell_operazione)
             hit == row_queryset(table, creditor_table, row, Val(amount.value))
             updated == [pk \in 1..Len(table) |->
                            IF pk \in hit
                            THEN [table[pk] EXCEPT !.paid_at = Some(Val(paid_at.value)),
                                                   !.status = PAID]
                            ELSE table[pk]]
         IN IF amount.raised # ""
            THEN [bills |-> table, raised |-> amount.raised, paid_bills_count |-> paid_bills_count]
            ELSE IF paid_at.raised # ""
            THEN [bills |-> table, raised |-> paid_at.raised, paid_bills_count |-> paid_bills_count]
            ELSE payments_loop_counts_rows(Tail(rows), updated, creditor_table,
                               paid_bills_count + (IF hit = {} THEN 0 ELSE 1))

\* variant: update(paid_at=...) without status=PAID
RECURSIVE payments_loop_keeps_status(_, _, _, _)
payments_loop_keeps_status(rows, table, creditor_table, paid_bills_count) ==
    IF rows = <<>>
    THEN [bills |-> table, raised |-> "", paid_bills_count |-> paid_bills_count]
    ELSE LET row == Head(rows)
             amount == Decimal_to_python(row.Importo_singolo)
             paid_at == Timestamp(row.Data_dell_operazione)
             hit == row_queryset(table, creditor_table, row, Val(amount.value))
             updated == [pk \in 1..Len(table) |->
                            IF pk \in hit
                            THEN [table[pk] EXCEPT !.paid_at = Some(Val(paid_at.value))]
                            ELSE table[pk]]
         IN IF amount.raised # ""
            THEN [bills |-> table, raised |-> amount.raised, paid_bills_count |-> paid_bills_count]
            ELSE IF paid_at.raised # ""
            THEN [bills |-> table, raised |-> paid_at.raised, paid_bills_count |-> paid_bills_count]
            ELSE payments_loop_keeps_status(Tail(rows), updated, creditor_table,
                               paid_bills_count + Cardinality(hit))

\* variant: update(status=PAID) without paid_at
RECURSIVE payments_loop_status_only(_, _, _, _)
payments_loop_status_only(rows, table, creditor_table, paid_bills_count) ==
    IF rows = <<>>
    THEN [bills |-> table, raised |-> "", paid_bills_count |-> paid_bills_count]
    ELSE LET row == Head(rows)
             amount == Decimal_to_python(row.Importo_singolo)
             paid_at == Timestamp(row.Data_dell_operazione)
             hit == row_queryset(table, creditor_table, row, Val(amount.value))
             updated == [pk \in 1..Len(table) |->
                            IF pk \in hit THEN [table[pk] EXCEPT !.status = PAID] ELSE table[pk]]
         IN IF amount.raised # ""
            THEN [bills |-> table, raised |-> amount.raised, paid_bills_count |-> paid_bills_count]
            ELSE IF paid_at.raised # ""
            THEN [bills |-> table, raised |-> paid_at.raised, paid_bills_count |-> paid_bills_count]
            ELSE payments_loop_status_only(Tail(rows), updated, creditor_table,
                               paid_bills_count + Cardinality(hit))

\* the rows of payments_df in turn; an exception ends the call and keeps what
\* the rows before it wrote
RECURSIVE payments_loop(_, _, _, _)
payments_loop(rows, table, creditor_table, paid_bills_count) ==
    IF rows = <<>>
    THEN [bills |-> table, raised |-> "", paid_bills_count |-> paid_bills_count]
    ELSE LET row == Head(rows)
             amount == Decimal_to_python(row.Importo_singolo)
             paid_at == Timestamp(row.Data_dell_operazione)
             hit == row_queryset(table, creditor_table, row, Val(amount.value))
             updated == [pk \in 1..Len(table) |->
                            IF pk \in hit
                            THEN [table[pk] EXCEPT !.paid_at = Some(Val(paid_at.value)),
                                                   !.status = PAID]
                            ELSE table[pk]]
         IN IF amount.raised # ""
            THEN [bills |-> table, raised |-> amount.raised, paid_bills_count |-> paid_bills_count]
            ELSE IF paid_at.raised # ""
            THEN [bills |-> table, raised |-> paid_at.raised, paid_bills_count |-> paid_bills_count]
            ELSE payments_loop(Tail(rows), updated, creditor_table,
                               paid_bills_count + Cardinality(hit))

\* variant: the call inside one transaction.atomic() block
process_payments_atomic(df, table, creditor_table) ==
    LET run == payments_loop(payments_df(df), table, creditor_table, 0)
    IN [run EXCEPT !.bills = atomic(table, run.bills, run.raised)]

process_payments(df, table, creditor_table) == payments_loop(payments_df(df), table, creditor_table, 0)

\* the message CreditorAdmin.upload_csv shows: the count, or the exception
upload_csv_message(run) ==
    IF run.raised # ""
    THEN <<"An error occurred during payment processing:", run.raised>>
    ELSE <<"Successfully registered", run.paid_bills_count, "payments.">>

\* CreditorAdmin.upload_csv
ProcessPayments(df) ==
    LET run == process_payments(df, bills, creditors)
    IN /\ bills' = run.bills
       /\ last' = Handled("process_payments", last.op = "process_payments",
                     [raised |-> run.raised, paid_bills_count |-> run.paid_bills_count,
                      message |-> upload_csv_message(run)])
       /\ UNCHANGED <<schedules, parties, now, requests>>

\* ---- references.generate_invoice_reference(seed), called on its own
GenerateInvoiceReference ==
    /\ last.op = "seed"
    /\ LET seed == last.data.seed
       IN last' = Handled("generate_invoice_reference", FALSE,
                     IF generate_invoice_reference_raises(seed)
                     THEN [seed |-> seed, raised |-> "ValueError", value |-> <<>>]
                     ELSE [seed |-> seed, raised |-> "",
                           value |-> <<generate_invoice_reference(seed)>>])
    /\ UNCHANGED <<bills, schedules, parties, now, requests>>

\* ---- the admin's add forms, and the clock
\* Bill.objects.create(**fields)
AdminCreateBill(fields, capacity) ==
    /\ Len(bills) < capacity
    /\ IF Bill_save_raises(fields, FALSE, contacts)
       THEN /\ bills' = bills
            /\ last' = Handled("create_bill", FALSE, [raised |-> "ValueError"])
       ELSE /\ bills' = Append(bills, Bill_save(fields, FALSE, contacts))
            /\ last' = Handled("create_bill", FALSE, [raised |-> ""])
    /\ UNCHANGED <<schedules, parties, now, requests>>

\* RecurringBill.objects.create(**fields)
AdminCreateSchedule(fields) ==
    LET saved == RecurringBill_save(fields, FALSE)
    IN /\ Len(schedules) < MaxSchedules
       /\ schedules' = IF saved.raised = "" THEN Append(schedules, Val(saved.value)) ELSE schedules
       /\ last' = Handled("create_schedule", FALSE, [raised |-> saved.raised])
       /\ UNCHANGED <<bills, parties, now, requests>>

\* BillAdmin's change form: the description and the billing date as entered,
\* then obj.save()
AdminChangeBill(pk, additional_information, billing_date) ==
    /\ pk \in 1..Len(bills)
    /\ bills' = [bills EXCEPT ![pk] =
                    Bill_save([@ EXCEPT !.additional_information = additional_information,
                                        !.billing_date = billing_date], TRUE, contacts)]
    /\ last' = Handled("change_bill", FALSE, [raised |-> ""])
    /\ UNCHANGED <<schedules, parties, now, requests>>

\* BillAdmin's change form: the due date as entered, or emptied, then
\* obj.save()
AdminChangeDueDate(pk, due_date) ==
    /\ pk \in 1..Len(bills)
    /\ bills' = [bills EXCEPT ![pk] = Bill_save([@ EXCEPT !.due_date = due_date], TRUE, contacts)]
    /\ last' = Handled("change_due_date", FALSE, [raised |-> ""])
    /\ UNCHANGED <<schedules, parties, now, requests>>

\* ContactAdmin's change form: the email as entered
AdminChangeContact(pk, email) ==
    /\ pk \in 1..Len(contacts)
    /\ contacts' = [contacts EXCEPT ![pk].email = email]
    /\ last' = Handled("change_contact", FALSE, [raised |-> ""])
    /\ UNCHANGED <<bills, schedules, creditors, now, requests>>

\* RecurringBillAdmin's change form with the rule and its arguments as
\* entered, then obj.save()
AdminChangeSchedule(pk, frequency, frequency_kwargs) ==
    LET saved == RecurringBill_save([schedules[pk] EXCEPT !.frequency = frequency,
                                                           !.frequency_kwargs = frequency_kwargs],
                                    TRUE)
    IN /\ pk \in 1..Len(schedules)
       /\ schedules' = IF saved.raised = "" THEN [schedules EXCEPT ![pk] = Val(saved.value)]
                       ELSE schedules
       /\ last' = Handled("change_schedule", FALSE, [raised |-> saved.raised])
       /\ UNCHANGED <<bills, parties, now, requests>>

\* RecurringBillAdmin's change form with is_active unticked, then obj.save()
AdminDeactivateSchedule(pk) ==
    LET saved == RecurringBill_save([schedules[pk] EXCEPT !.is_active = FALSE], TRUE)
    IN /\ pk \in 1..Len(schedules)
       /\ schedules[pk].is_active
       /\ schedules' = IF saved.raised = "" THEN [schedules EXCEPT ![pk] = Val(saved.value)]
                       ELSE schedules
       /\ last' = Handled("deactivate_schedule", FALSE, [raised |-> saved.raised])
       /\ UNCHANGED <<bills, parties, now, requests>>

\* rb = RecurringBill.objects.get(pk=pk); rb.generate_bill(): the call alone,
\* as the model tests make it.  The method assigns no attribute of self and
\* calls no save().
CallGenerateBill(pk) ==
    /\ pk \in 1..Len(schedules)
    /\ LET new_bill == generate_bill(schedules[pk], pk)
       IN last' = Handled("generate_bill", FALSE,
                     [pk |-> pk, raised |-> new_bill.raised, value |-> new_bill.value])
    /\ UNCHANGED <<bills, schedules, parties, now, requests>>

\* ---- Model.delete(), from the admin's delete view or a call
\* a deleted row: its primary key is not used again
Deleted == [deleted |-> TRUE]
Live(table) == {pk \in 1..Len(table) : table[pk] # Deleted}

\* variant: only the bills protect a contact or a creditor
PROTECT_bills_only(field, pk) ==
    \E b \in Live(bills) : bills[b][field] = pk

\* on_delete=models.PROTECT on BaseBill.contact and BaseBill.creditor: whether
\* a bill or a schedule refers to row pk through the field
PROTECT(field, pk) ==
    \/ \E b \in Live(bills) : bills[b][field] = pk
    \/ \E s \in Live(schedules) : schedules[s][field] = pk

\* on_delete=SET_NULL on Bill.recurring_bill: the bills after schedule pk is
\* deleted
SET_NULL(table, pk) ==
    [b \in 1..Len(table) |->
        IF table[b] # Deleted /\ table[b].recurring_bill = Some(pk)
        THEN [table[b] EXCEPT !.recurring_bill = None]
        ELSE table[b]]

DeleteContact(pk) ==
    /\ pk \in Live(contacts)
    /\ IF PROTECT("contact", pk)
       THEN /\ contacts' = contacts
            /\ last' = Handled("delete_contact", FALSE, [pk |-> pk, raised |-> "ProtectedError"])
       ELSE /\ contacts' = [contacts EXCEPT ![pk] = Deleted]
            /\ last' = Handled("delete_contact", FALSE, [pk |-> pk, raised |-> ""])
    /\ UNCHANGED <<bills, schedules, creditors, now, requests>>

DeleteCreditor(pk) ==
    /\ pk \in Live(creditors)
    /\ IF PROTECT("creditor", pk)
       THEN /\ creditors' = creditors
            /\ last' = Handled("delete_creditor", FALSE, [pk |-> pk, raised |-> "ProtectedError"])
       ELSE /\ creditors' = [creditors EXCEPT ![pk] = Deleted]
            /\ last' = Handled("delete_creditor", FALSE, [pk |-> pk, raised |-> ""])
    /\ UNCHANGED <<bills, schedules, contacts, now, requests>>

DeleteSchedule(pk) ==
    /\ pk \in Live(schedules)
    /\ bills' = SET_NULL(bills, pk)
    /\ schedules' = [schedules EXCEPT ![pk] = Deleted]
    /\ last' = Handled("delete_schedule", FALSE, [pk |-> pk, raised |-> ""])
    /\ UNCHANGED <<parties, now, requests>>

Tick ==
    /\ now < MaxTime
    /\ now' = now + 1
    /\ last' = Handled("tick", FALSE, [raised |-> ""])
    /\ UNCHANGED <<bills, schedules, parties, requests>>

(* ---------------------------- specifications ---------------------------- *)
\* Decimal("20.40") and Decimal("18.60"), in hundredths
Amount_20_40 == 2040
Amount_18_60 == 1860

Schedule(contact, creditor, amount, currency, language, frequency, frequency_kwargs, description_template, start_date, next_billing_date, is_active) ==
    [contact |-> contact, creditor |-> creditor, amount |-> amount, currency |-> currency,
     language |-> language, frequency |-> frequency, frequency_kwargs |-> frequency_kwargs,
     description_template |-> description_template, start_date |-> start_date,
     next_billing_date |-> next_billing_date, is_active |-> is_active]

\* The database after the fixtures are loaded: a contact, two creditors, no
\* bill and no schedule.
Init ==
    /\ bills = <<>>
    /\ schedules = <<>>
    /\ contacts = <<contact_fixture>>
    /\ creditors = <<creditor_fixture, creditor2_fixture>>
    /\ now = 0
    /\ requests = <<>>
    /\ last = Handled("init", FALSE, [raised |-> ""])

\* ---- Spec: the life of a bill under every batch handler.  Bills are added
\* PENDING, with the due date left out or given as now, and reach the other
\* statuses through the handlers; a monthly schedule, in the database from the
\* start, generates more.
BillForms(t) ==
    {[Bill(1, 1, Amount_20_40, "CHF", "en", Manual_Bill, None, t) EXCEPT !.due_date = due] :
        due \in {None, Some(t)}}
ScheduleForms(t) ==
    {Schedule(1, 1, Amount_20_40, "CHF", "en", "MonthBegin", <<>>, tpl("text", Manual_Bill), t, None, TRUE)}

Next ==
    \/ \E f \in BillForms(now) : AdminCreateBill(f, MaxBillsLife)
    \/ SendPendingBills
    \/ GenerateRecurringBills(MaxBillsLife)
    \/ MarkOverdueBills
    \/ NotifyOverdueBills
    \/ \E df \in Statements(now) : ProcessPayments(df)
    \/ Tick

InitLife ==
    /\ bills = <<>>
    /\ schedules \in {<<Val(RecurringBill_save(f, FALSE).value)>> : f \in ScheduleForms(0)}
    /\ contacts = <<contact_fixture>>
    /\ creditors = <<creditor_fixture, creditor2_fixture>>
    /\ now = 0
    /\ requests = <<>>
    /\ last = Handled("init", FALSE, [raised |-> ""])

Spec == InitLife /\ [][Next]_vars

\* ---- SpecGen: schedules and the generation of their bills.  Monthly
\* schedules are added active or paused, with a template that renders or one
\* that is malformed.
ScheduleFormsGen(t) ==
    {Schedule(1, 1, Amount_20_40, "CHF", "en", "MonthBegin", <<>>, d, t, None, a) :
        d \in {tpl("text", Manual_Bill), tpl("syntax_error", Manual_Bill)}, a \in BOOLEAN}

NextGen ==
    \/ \E f \in ScheduleFormsGen(now) : AdminCreateSchedule(f)
    \/ GenerateRecurringBills(MaxBills)
    \/ Tick

SpecGen == Init /\ [][NextGen]_vars

\* ---- SpecCursor: the cursor of a schedule under the counts n that
\* MonthBegin accepts.
ScheduleFormsCursor(t) ==
    {Schedule(1, 1, Amount_20_40, "CHF", "en", "MonthBegin", k, tpl("text", Manual_Bill), t, None, TRUE) :
        k \in {<<>>, <<kw("n", "int", 2)>>, <<kw("n", "int", 0)>>, <<kw("n", "int", 0 - 1)>>}}

NextCursor ==
    \/ \E f \in ScheduleFormsCursor(now) : AdminCreateSchedule(f)
    \/ GenerateRecurringBills(MaxBills)
    \/ Tick

SpecCursor == Init /\ [][NextCursor]_vars

\* ---- SpecSweep: the overdue sweep over bills added in any status.
BillFormsSweep(t) ==
    {[Bill(1, 1, Amount_20_40, "CHF", "en", Manual_Bill, None, t)
        EXCEPT !.status = st, !.due_date = due,
               !.paid_at = IF st = PAID THEN Some(t) ELSE None] :
        st \in BillStatus, due \in {None, Some(t)}}

NextSweep ==
    \/ \E f \in BillFormsSweep(now) : AdminCreateBill(f, MaxBills)
    \/ MarkOverdueBills
    \/ Tick

SpecSweep == Init /\ [][NextSweep]_vars

\* ---- SpecPay: reconciliation.  Bills are added in any status for the
\* reference bill, and SENT with one of amount, creditor, currency and
\* reference changed; statements are made of rows that pay one of them, a
\* row of blank cells under the marker, a row without the marker and a row
\* whose amount is no number.
BillFormsPay ==
    {[Bill(1, 1, Amount_20_40, "CHF", "en", Manual_Bill, None, 0)
        EXCEPT !.status = st, !.sent_at = IF st \in {SENT, PAID} THEN Some(0) ELSE None,
               !.paid_at = IF st = PAID THEN Some(0) ELSE None] : st \in BillStatus}
    \cup {[b EXCEPT !.status = SENT, !.sent_at = Some(0)] : b \in
            {Bill(1, 1, Amount_18_60, "CHF", "en", Manual_Bill, None, 0),
             Bill(1, 2, Amount_20_40, "CHF", "en", Manual_Bill, None, 0),
             Bill(1, 1, Amount_20_40, "EUR", "en", Manual_Bill, None, 0),
             Bill(1, 1, Amount_20_40, "CHF", "en", Manual_Bill, None, 1)}}

NextPay ==
    \/ \E f \in BillFormsPay : AdminCreateBill(f, MaxBills)
    \/ \E df \in StatementsPay : ProcessPayments(df)

SpecPay == Init /\ [][NextPay]_vars

\* ---- SpecRef: the reference token of a row.  The statements hold the row
\* of the reference bill with its description as the bank writes it, with
\* the reference in groups of four, with a note after a further colon, and
\* with a label and a colon before the marker.
RECURSIVE in_groups_of_4(_)
in_groups_of_4(t) == IF Len(t) <= 4 THEN t
    ELSE SubSeq(t, 1, 4) \o <<" ">> \o in_groups_of_4(SubSeq(t, 5, Len(t)))
DescriptionsRef ==
    {SCOR \o <<" ">> \o Manual_Bill_reference[0],
     SCOR \o <<" ">> \o in_groups_of_4(Manual_Bill_reference[0]) \o <<" ">>,
     SCOR \o <<" ">> \o Manual_Bill_reference[0] \o <<":", " ", "Q", "2">>,
     <<"R", "i", "f", ":", " ">> \o SCOR \o <<" ">> \o Manual_Bill_reference[0]}
RowsRef ==
    {Row(Some(IsoDateOf[1]), Some(Text_20_40), Some("CHF"), Some(d), Some(creditor_fixture.iban)) :
        d \in DescriptionsRef}
StatementsRef == UNION {[1..n -> RowsRef] : n \in 0..MaxRows}

NextRef ==
    \/ \E f \in BillFormsPay : AdminCreateBill(f, MaxBills)
    \/ \E df \in StatementsRef : ProcessPayments(df)

SpecRef == Init /\ [][NextRef]_vars

\* ---- SpecFill: statements with blank cells.  A full row without the
\* marker, a row under the marker with every other cell blank, a row that
\* holds a later date alone and a row that holds another currency alone.
RowsFill ==
    {Row(Some(IsoDateOf[0]), Some(<<"2","0",".","4">>), Some("CHF"),
         Some(<<"B","o","n","i","f","i","c","o">>), Some(creditor_fixture.iban)),
     Row(None, None, None, Some(SCOR \o <<" ">> \o Manual_Bill_reference[0]), None),
     Row(Some(IsoDateOf[1]), None, None, None, None),
     Row(None, None, Some("EUR"), None, None)}
StatementsFill == UNION {[1..n -> RowsFill] : n \in 0..MaxRowsFill}
BillFormsFill ==
    {[Bill(1, 1, Amount_20_40, f[1], "en", Manual_Bill, None, 0)
        EXCEPT !.status = f[2], !.sent_at = Some(0)] :
        f \in {<<"CHF", SENT>>, <<"CHF", OVERDUE>>, <<"EUR", SENT>>}}

NextFill ==
    \/ \E f \in BillFormsFill : AdminCreateBill(f, MaxBills)
    \/ \E df \in StatementsFill : ProcessPayments(df)

SpecFill == Init /\ [][NextFill]_vars

\* ---- SpecSend: the sending of pending bills.  Bills are added in any
\* status, the sent and paid ones with the time they were sent.
BillFormsSend(t) ==
    {[Bill(1, 1, Amount_20_40, "CHF", "en", Manual_Bill, None, t)
        EXCEPT !.status = st,
               !.sent_at = IF st \in {SENT, PAID} THEN Some(t) ELSE None,
               !.paid_at = IF st = PAID THEN Some(t) ELSE None] : st \in BillStatus}

NextSend ==
    \/ \E f \in BillFormsSend(now) : AdminCreateBill(f, MaxBills)
    \/ SendPendingBills
    \/ Tick

SpecSend == Init /\ [][NextSend]_vars

\* ---- SpecSave: a bill through its saves.  A bill is added without a
\* reference or with the one of the payment tests, its description and
\* billing date and the email of its contact are changed in the admin, and
\* the batch handlers run.
RF14YOUT20250401RICCARDO ==
    <<"R","F","1","4","Y","O","U","T","2","0","2","5","0","4","0","1",
      "R","I","C","C","A","R","D","O">>
BillFormsSave(t) ==
    {[Bill(1, 1, Amount_20_40, "CHF", "en", d, None, t) EXCEPT !.reference_number = r] :
        d \in {Manual_Bill, One_off_Internet_Bill}, r \in {<<>>, RF14YOUT20250401RICCARDO}}

NextSave ==
    \/ \E f \in BillFormsSave(now) : AdminCreateBill(f, MaxBillsLife)
    \/ \E pk \in 1..MaxBillsLife, d \in {Manual_Bill, One_off_Internet_Bill}, t \in 0..MaxTime :
          AdminChangeBill(pk, d, t)
    \/ \E e \in {contact_fixture.email, contact_b_email} : AdminChangeContact(1, e)
    \/ SendPendingBills
    \/ MarkOverdueBills
    \/ \E df \in Statements(now) : ProcessPayments(df)
    \/ Tick

SpecSave == Init /\ [][NextSave]_vars

\* ---- SpecDeactivate: schedules that are switched off.  Monthly schedules
\* are added active or paused, bill, and are switched off in the admin.
NextDeactivate ==
    \/ \E f \in ScheduleFormsGen(now) : AdminCreateSchedule(f)
    \/ \E pk \in 1..MaxSchedules : AdminDeactivateSchedule(pk)
    \/ GenerateRecurringBills(MaxBills)
    \/ Tick

SpecDeactivate == Init /\ [][NextDeactivate]_vars

\* ---- SpecBillOf: the bill a schedule builds.  Two contacts and two
\* creditors; schedules are added that differ in every field a bill copies,
\* active or paused, with the cursor left out or set a month ahead, and with
\* a template that is plain, one that uses the billing date and one that is
\* malformed.
InitParties ==
    /\ bills = <<>>
    /\ schedules = <<>>
    /\ contacts = <<contact_fixture, contact2_fixture>>
    /\ creditors = <<creditor_fixture, creditor2_fixture>>
    /\ now = 0
    /\ requests = <<>>
    /\ last = Handled("init", FALSE, [raised |-> ""])

ScheduleFormsBillOf(t) ==
    {Schedule(1, 1, Amount_20_40, "CHF", "en", "MonthBegin", <<>>,
              tpl("text", Manual_Bill), t, None, TRUE),
     Schedule(2, 2, Amount_18_60, "EUR", "de", "MonthBegin", <<>>,
              tpl("billing_date.year", Manual_Bill), t, Some(t + 1), FALSE),
     Schedule(1, 2, Amount_20_40, "CHF", "en", "MonthBegin", <<>>,
              tpl("syntax_error", Manual_Bill), t, None, TRUE)}

NextBillOf ==
    \/ \E f \in ScheduleFormsBillOf(now) : AdminCreateSchedule(f)
    \/ \E pk \in 1..MaxSchedules : CallGenerateBill(pk)
    \/ GenerateRecurringBills(MaxBills)
    \/ Tick

SpecBillOf == InitParties /\ [][NextBillOf]_vars

\* ---- SpecCreate: schedules as they are entered.  The cursor is left out,
\* or set a month before, at, or a month after the start date; the rule is
\* MonthBegin or Hour, which is not on the list; the arguments are none, the
\* pair of the creation test, an unknown name, a count that is a word and a
\* count with a fractional part.  Stored schedules have their rule and
\* arguments changed the same way.
RulesCreate ==
    {<<"MonthBegin", <<>>>>,
     <<"MonthBegin", <<kw("n", "int", 2), kw("normalize", "bool", 0)>>>>,
     <<"MonthBegin", <<kw("invalid_arg", "bool", 0)>>>>,
     <<"MonthBegin", <<kw("n", "str", 0)>>>>,
     <<"MonthBegin", <<kw("n", "float", 0)>>>>,
     <<"Hour", <<>>>>}
ScheduleFormsCreate(t) ==
    {Schedule(1, 1, Amount_20_40, "CHF", "en", r[1], r[2], tpl("text", Manual_Bill), t, n, TRUE) :
        r \in RulesCreate, n \in {None, Some(t - 1), Some(t), Some(t + 1)}}

NextCreate ==
    \/ \E f \in ScheduleFormsCreate(now) : AdminCreateSchedule(f)
    \/ \E pk \in 1..MaxSchedules, r \in RulesCreate : AdminChangeSchedule(pk, r[1], r[2])
    \/ Tick

SpecCreate == Init /\ [][NextCreate]_vars

\* ---- SpecDue: the due date of a bill.  A bill is added with the due date
\* left out, at the billing date or two months after it; its billing date is
\* changed and its due date is changed or emptied in the admin; it is sent
\* and swept.
BillFormsDue(t) ==
    {[Bill(1, 1, Amount_20_40, "CHF", "en", Manual_Bill, None, t) EXCEPT !.due_date = due] :
        due \in {None, Some(t), Some(t + 2)}}
DueDatesEntered == {None} \cup {Some(t) : t \in 0..MaxTime}

NextDue ==
    \/ \E f \in BillFormsDue(now) : AdminCreateBill(f, MaxBillsLife)
    \/ \E pk \in 1..MaxBillsLife, t \in 0..MaxTime : AdminChangeBill(pk, Manual_Bill, t)
    \/ \E pk \in 1..MaxBillsLife, due \in DueDatesEntered : AdminChangeDueDate(pk, due)
    \/ SendPendingBills
    \/ MarkOverdueBills
    \/ Tick

SpecDue == Init /\ [][NextDue]_vars

\* ---- SpecChecksum: the reference of a seed.  The seeds are the texts of up
\* to MaxSeedLen characters over a small letter, a capital, a digit, a
\* hyphen, a letter outside ASCII and the superscript two.
SeedChars == {"a", "Z", "7", "-", "é", "²"}
Seeds == UNION {[1..n -> SeedChars] : n \in 0..MaxSeedLen}

InitChecksum ==
    /\ bills = <<>>
    /\ schedules = <<>>
    /\ contacts = <<contact_fixture>>
    /\ creditors = <<creditor_fixture, creditor2_fixture>>
    /\ now = 0
    /\ requests = <<>>
    /\ \E seed \in Seeds : last = Handled("seed", FALSE, [seed |-> seed])

NextChecksum == GenerateInvoiceReference

SpecChecksum == InitChecksum /\ [][NextChecksum]_vars

\* ---- SpecForm: the references of bills.  Bills are added for either
\* contact, in any month, with a description in ASCII, one with letters
\* outside ASCII, one shorter than four characters and one with a
\* superscript digit.
ete_25 == <<"é", "t", "é", " ", "2", "5">>
m2 == <<"m", "²">>
DescriptionsForm == {Manual_Bill, One_off_Internet_Bill, ete_25, <<"Q", "-", "1">>, m2}
BillFormsForm(t) ==
    {Bill(c, 1, Amount_20_40, "CHF", "en", d, None, t) : c \in 1..2, d \in DescriptionsForm}

NextForm ==
    \/ \E f \in BillFormsForm(now) : AdminCreateBill(f, MaxBills)
    \/ Tick

SpecForm == InitParties /\ [][NextForm]_vars

\* ---- SpecTemplate: the description templates.  Monthly schedules are added
\* with plain text, with the year of the billing date, with a name the
\* context does not hold, with an attribute of such a name, and with a
\* malformed placeholder.
TemplateKinds == {"text", "billing_date.year", "undefined_name", "undefined_name.attr",
                  "syntax_error"}
ScheduleFormsTemplate(t) ==
    {Schedule(1, 1, Amount_20_40, "CHF", "en", "MonthBegin", <<>>, tpl(k, Manual_Bill), t, None, TRUE) :
        k \in TemplateKinds}

NextTemplate ==
    \/ \E f \in ScheduleFormsTemplate(now) : AdminCreateSchedule(f)
    \/ GenerateRecurringBills(MaxBills)
    \/ Tick

SpecTemplate == Init /\ [][NextTemplate]_vars

\* ---- SpecDelete: deletions.  Two contacts and two creditors; bills and
\* schedules are added for the contacts and creditors that exist, the bills
\* with or without a link to a schedule that exists; contacts, creditors and
\* schedules are deleted.
BillFormsDelete ==
    {Bill(c, k, Amount_20_40, "CHF", "en", Manual_Bill, rb, 0) :
        c \in Live(contacts), k \in Live(creditors),
        rb \in {None} \cup {Some(pk) : pk \in Live(schedules)}}
ScheduleFormsDelete ==
    {Schedule(c, k, Amount_20_40, "CHF", "en", "MonthBegin", <<>>, tpl("text", Manual_Bill),
              0, None, TRUE) : c \in Live(contacts), k \in Live(creditors)}

NextDelete ==
    \/ \E f \in BillFormsDelete : AdminCreateBill(f, MaxBills)
    \/ \E f \in ScheduleFormsDelete : AdminCreateSchedule(f)
    \/ \E pk \in 1..2 : DeleteContact(pk)
    \/ \E pk \in 1..2 : DeleteCreditor(pk)
    \/ \E pk \in 1..MaxSchedules : DeleteSchedule(pk)

SpecDelete == InitParties /\ [][NextDelete]_vars

\* ---- SpecNotify: the notification of overdue bills.  Bills are added in
\* any status, swept, and notified.
NextNotify ==
    \/ \E f \in BillFormsSend(now) : AdminCreateBill(f, MaxBills)
    \/ MarkOverdueBills
    \/ NotifyOverdueBills
    \/ Tick

SpecNotify == Init /\ [][NextNotify]_vars

\* ---- SpecOrder: the order of a run.  Monthly schedules are added with the
\* cursor at the start date or a month after it, so that the row added first
\* may be the one that falls due later.
ScheduleFormsOrder(t) ==
    {Schedule(1, 1, Amount_20_40, "CHF", "en", "MonthBegin", <<>>, tpl("text", Manual_Bill), t, n, TRUE) :
        n \in {None, Some(t + 1)}}

NextOrder ==
    \/ \E f \in ScheduleFormsOrder(now) : AdminCreateSchedule(f)
    \/ GenerateRecurringBills(MaxBills)
    \/ Tick

SpecOrder == Init /\ [][NextOrder]_vars

\* ---- SpecBehind: schedules that are behind.  Monthly schedules are added
\* with the start date in the current month or the month before it, and the
\* orchestrator runs in that month and the next.
ScheduleFormsBehind(t) ==
    {Schedule(1, 1, Amount_20_40, "CHF", "en", "MonthBegin", k, tpl("text", Manual_Bill), s, None, TRUE) :
        k \in {<<>>, <<kw("n", "int", 2)>>, <<kw("n", "int", 0)>>}, s \in {t - 1, t}}

NextBehind ==
    \/ \E f \in ScheduleFormsBehind(now) : AdminCreateSchedule(f)
    \/ GenerateRecurringBills(MaxBillsBehind)
    \/ Tick

SpecBehind == Init /\ [][NextBehind]_vars

\* ---- SpecRace: runs of the orchestrator that are triggered while another
\* is being handled.  Monthly schedules with the default count, so that a run
\* made alone bills every month once.
ScheduleFormsRace(t) ==
    {Schedule(1, 1, Amount_20_40, "CHF", "en", "MonthBegin", <<>>, tpl("text", Manual_Bill), t, None, a) :
        a \in BOOLEAN}

NextRace ==
    \/ \E f \in ScheduleFormsRace(now) : AdminCreateSchedule(f)
    \/ \E r \in 1..MaxRequests : GenerateRecurringBills_exists(r)
    \/ \E r \in 1..MaxRequests : GenerateRecurringBills_for(r)
    \/ \E r \in 1..MaxRequests : GenerateRecurringBills_body(r, MaxBills)
    \/ \E r \in 1..MaxRequests : GenerateRecurringBills_response(r)
    \/ Tick

SpecRace == Init /\ [][NextRace]_vars

\* ---- SpecStale: the sweep and reconciliation while send-pending is being
\* handled.  Bills are added PENDING, as in Spec.
NextStale ==
    \/ \E f \in BillForms(now) : AdminCreateBill(f, MaxBillsLife)
    \/ \E r \in 1..MaxRequests : SendPendingBills_exists(r)
    \/ \E r \in 1..MaxRequests : SendPendingBills_for(r)
    \/ \E r \in 1..MaxRequests : SendPendingBills_body(r)
    \/ \E r \in 1..MaxRequests : SendPendingBills_response(r)
    \/ MarkOverdueBills
    \/ \E df \in Statements(now) : ProcessPayments(df)
    \/ Tick

SpecStale == Init /\ [][NextStale]_vars

\* ---- SpecUnsent: bills that fall overdue before they are sent.  Two bills
\* are added PENDING and go through every batch handler.
NextUnsent ==
    \/ \E f \in BillForms(now) : AdminCreateBill(f, MaxBills)
    \/ SendPendingBills
    \/ MarkOverdueBills
    \/ NotifyOverdueBills
    \/ \E df \in Statements(now) : ProcessPayments(df)
    \/ Tick

SpecUnsent == Init /\ [][NextUnsent]_vars

\* ---- SpecPartial: statements that fail part-way.  Two SENT or OVERDUE
\* bills, "Manual Bill" of month 0 and of month 1; statements of up to
\* MaxRowsFill rows that pay one of them, or carry the reference of the
\* second with an amount or a date that cannot be read.
BillFormsPartial ==
    {[Bill(1, 1, Amount_20_40, "CHF", "en", Manual_Bill, None, t)
        EXCEPT !.status = st, !.sent_at = Some(t)] : t \in 0..1, st \in {SENT, OVERDUE}}
RowsPartial ==
    {PayRow(Text_20_40, "CHF", Manual_Bill_reference[0], creditor_fixture.iban),
     PayRow(Text_20_40, "CHF", Manual_Bill_reference[1], creditor_fixture.iban),
     PayRow(<<"a","b","c">>, "CHF", Manual_Bill_reference[1], creditor_fixture.iban),
     Row(Some(<<"n","/","a">>), Some(Text_20_40), Some("CHF"),
         Some(SCOR \o <<" ">> \o Manual_Bill_reference[1]), Some(creditor_fixture.iban))}
StatementsPartial == UNION {[1..n -> RowsPartial] : n \in 0..MaxRowsFill}

NextPartial ==
    \/ \E f \in BillFormsPartial : AdminCreateBill(f, MaxBills)
    \/ \E df \in StatementsPartial : ProcessPayments(df)

SpecPartial == Init /\ [][NextPartial]_vars

\* ---- SpecCommute: the sweep and reconciliation in either order.  The
\* "Manual Bill" of the current month is added SENT or PAID, with the due
\* date left out or given as now, and becomes OVERDUE through the sweep; the
\* statements are those of SpecPartial with at most MaxRows rows.
BillFormsCommute(t) ==
    {[Bill(1, 1, Amount_20_40, "CHF", "en", Manual_Bill, None, t)
        EXCEPT !.status = st, !.due_date = due, !.sent_at = Some(t),
               !.paid_at = IF st = PAID THEN Some(t) ELSE None] :
        st \in {SENT, PAID}, due \in {None, Some(t)}}
StatementsCommute == UNION {[1..n -> RowsPartial] : n \in 0..MaxRows}

NextCommute ==
    \/ \E f \in BillFormsCommute(now) : AdminCreateBill(f, MaxBills)
    \/ MarkOverdueBills
    \/ \E df \in StatementsCommute : ProcessPayments(df)
    \/ Tick

SpecCommute == Init /\ [][NextCommute]_vars

(* ------------------------------ properties ------------------------------ *)
\* the bills of the table before a step keep their pk after it
SamePks == Len(bills') >= Len(bills)
due_by(bill, t) == ~IsNone(bill.due_date) /\ Val(bill.due_date) <= t

AllowedTransitions ==
    {<<PENDING, SENT>>, <<PENDING, OVERDUE>>, <<SENT, OVERDUE>>, <<SENT, PAID>>, <<OVERDUE, PAID>>}
OnlyAllowedTransitions ==
    [][/\ SamePks
       /\ \A pk \in 1..Len(bills) :
             bills'[pk].status # bills[pk].status =>
                 <<bills[pk].status, bills'[pk].status>> \in AllowedTransitions]_vars
\* a bill that went PENDING -> OVERDUE -> PAID without being sent
OnlyAllowedTransitions_witness ==
    /\ last.op = "process_payments" /\ last.data.paid_bills_count = 1
    /\ \E pk \in 1..Len(bills) : bills[pk].status = PAID /\ IsNone(bills[pk].sent_at)

SweepIsIdempotent ==
    [][last.op = "mark_overdue" /\ last'.op = "mark_overdue" /\ last'.rep =>
          last'.data.updated_count = 0 /\ bills' = bills]_vars
\* the second of two sweeps in a row, the first of which had a bill to update
SweepIsIdempotent_witness ==
    /\ last.op = "mark_overdue" /\ last.rep
    /\ \E pk \in 1..Len(bills) :
          bills[pk].status = OVERDUE /\ IsNone(bills[pk].paid_at) /\ due_by(bills[pk], now)

\* ---- the orchestrator: what a step of GenerateRecurringBillsAPIView.post did
\* the schedules the run selects: active, with next_billing_date <= now
DueAtStart == {pk \in 1..Len(schedules) :
                 schedules[pk].is_active /\ Val(schedules[pk].next_billing_date) <= now}
\* the bills the step added for schedule pk
NewBills(pk) == {b \in (Len(bills) + 1)..Len(bills') : bills'[b].recurring_bill = Some(pk)}
\* the errors of the response, empty when it has no such field
ErrorsOf(data) == IF "errors" \in DOMAIN data THEN data.errors ELSE <<>>
NamedInErrors(data) == {ErrorsOf(data)[i].pk : i \in 1..Len(ErrorsOf(data))}
\* the date the rule of schedule pk leads to from its stored cursor
CursorAfter(pk) == calculate_next_billing_date(schedules[pk]).value
KeepsOldBills == Len(bills') >= Len(bills) /\ \A b \in 1..Len(bills) : bills'[b] = bills[b]

CursorAdvances ==
    [][last'.op = "generate" =>
          \A pk \in 1..Len(schedules) :
              /\ Val(schedules'[pk].next_billing_date) >= Val(schedules[pk].next_billing_date)
              /\ NewBills(pk) # {} =>
                    Val(schedules'[pk].next_billing_date) > Val(schedules[pk].next_billing_date)]_vars

\* C5: a run without failures adds exactly one bill for each active schedule
\* with next_billing_date <= now, reports their number as generated_count, and
\* leaves every other schedule without a bill and with its row as it was.
GeneratesOnePerDueSchedule ==
    [][last'.op = "generate" /\ ErrorsOf(last'.data) = <<>> =>
          /\ KeepsOldBills /\ Len(schedules') = Len(schedules)
          /\ \A pk \in DueAtStart : Cardinality(NewBills(pk)) = 1
          /\ Len(bills') - Len(bills) = Cardinality(DueAtStart)
          /\ last'.data.generated_count = Cardinality(DueAtStart)
          /\ \A pk \in (1..Len(schedules)) \ DueAtStart :
                NewBills(pk) = {} /\ schedules'[pk] = schedules[pk]]_vars
\* a run without failures that billed a schedule due exactly now and passed
\* over a paused schedule that was due as well
GeneratesOnePerDueSchedule_witness ==
    /\ last.op = "generate" /\ last.data.status = "success" /\ last.data.generated_count = 1
    /\ Len(bills) = 1 /\ bills[1].billing_date = now
    /\ \E pk \in 1..Len(schedules) :
          ~schedules[pk].is_active /\ Val(schedules[pk].next_billing_date) <= now

\* C6: the run attempts every due schedule.  Each due schedule has either
\* its bill or one entry in errors that names it, and generated_count plus
\* the number of entries is the number of due schedules.
NeverStopsEarly ==
    [][last'.op = "generate" =>
          LET errors == ErrorsOf(last'.data)
          IN /\ last'.data.generated_count + Len(errors) = Cardinality(DueAtStart)
             /\ \A i, j \in 1..Len(errors) : errors[i].pk = errors[j].pk => i = j
             /\ \A pk \in DueAtStart : NewBills(pk) = {} <=> pk \in NamedInErrors(last'.data)
             /\ NamedInErrors(last'.data) \subseteq DueAtStart]_vars
\* a run in which the schedule taken first failed and one taken after it
\* got its bill
NeverStopsEarly_witness ==
    /\ last.op = "generate" /\ last.data.status = "partial_success"
    /\ \E b \in 1..Len(bills) :
          /\ bills[b].billing_date = now
          /\ Val(schedules[last.data.errors[1].pk].next_billing_date) < bills[b].billing_date

\* C7: the three shapes of the result.  No due schedule: success, count 0,
\* the no-schedules message, nothing changed.  Due schedules and no failure:
\* success, a positive count, no errors field.  A failure: partial_success
\* with the errors.  The status is partial_success exactly when errors is
\* not empty.
ThreeResultShapes ==
    [][last'.op = "generate" =>
          LET data == last'.data
              failed == {pk \in DueAtStart : NewBills(pk) = {}}
          IN /\ DueAtStart = {} =>
                   /\ data = [status |-> "success", generated_count |-> 0,
                              message |-> <<"No active recurring bills found to process.">>]
                   /\ UNCHANGED <<bills, schedules>>
             /\ DueAtStart # {} /\ failed = {} =>
                   /\ data.status = "success" /\ data.generated_count > 0
                   /\ "errors" \notin DOMAIN data
                   /\ data.message # <<"No active recurring bills found to process.">>
             /\ failed # {} =>
                   /\ data.status = "partial_success" /\ "errors" \in DOMAIN data
                   /\ Len(data.errors) = Cardinality(failed)
             /\ data.status = "partial_success" <=> ErrorsOf(data) # <<>>]_vars
\* a result with both a bill generated and an error
ThreeResultShapes_witness ==
    /\ last.op = "generate" /\ last.data.status = "partial_success"
    /\ last.data.generated_count >= 1 /\ last.data.errors # <<>>

\* ---- reconciliation: what process_payments does with a statement
\* the rows under the marker, forward-filled, in the order of the statement
MarkedRows(df) == payments_df(df)
\* a row whose amount or date cannot be read ends the call
Unreadable(row) ==
    \/ Decimal_to_python(row.Importo_singolo).raised # ""
    \/ Timestamp(row.Data_dell_operazione).raised # ""
\* the number of rows the call processes
Processed(rows) ==
    IF \E i \in 1..Len(rows) : Unreadable(rows[i])
    THEN (CHOOSE i \in 1..Len(rows) :
             Unreadable(rows[i]) /\ \A j \in 1..(i - 1) : ~Unreadable(rows[j])) - 1
    ELSE Len(rows)
\* bill and row agree on amount, creditor IBAN, currency and extracted reference
Agree(bill, row) ==
    /\ amount_Decimal(bill.amount) = Val(Decimal_to_python(row.Importo_singolo).value)
    /\ creditors[bill.creditor].iban = CharField_to_python(row.Descrizione2)
    /\ bill.currency = CharField_to_python(row.Moneta)
    /\ bill.reference_number = row.reference_number

\* C10: the match rule.  For every statement, process_payments changes a
\* bill exactly when the bill is SENT or OVERDUE and agrees with a processed
\* row under the marker on amount, creditor IBAN, currency and reference; the
\* change sets status to PAID and paid_at to the date of the first such row,
\* and nothing else in the table.
PaymentsMatchRule ==
    \A df \in StatementsPay :
        LET run == process_payments(df, bills, creditors)
            rows == MarkedRows(df)
        IN /\ Len(run.bills) = Len(bills)
           /\ \A pk \in 1..Len(bills) :
                 LET hits == {i \in 1..Processed(rows) :
                                 bills[pk].status \in {SENT, OVERDUE} /\ Agree(bills[pk], rows[i])}
                     first == CHOOSE i \in hits : \A j \in hits : i <= j
                 IN run.bills[pk] =
                        IF hits = {} THEN bills[pk]
                        ELSE [bills[pk] EXCEPT
                                 !.status = PAID,
                                 !.paid_at = Some(Val(Timestamp(rows[first].Data_dell_operazione).value))]
\* a run that paid one bill on the date of its row and left a SENT bill that
\* differs from it in the currency alone
PaymentsMatchRule_witness ==
    /\ last.op = "process_payments" /\ last.data.raised = "" /\ last.data.paid_bills_count = 1
    /\ Len(bills) = 2
    /\ bills[1].status = PAID /\ bills[1].paid_at = Some(1)
    /\ bills[2].status = SENT /\ bills[2].currency # bills[1].currency
    /\ bills[2].amount = bills[1].amount /\ bills[2].creditor = bills[1].creditor
    /\ bills[2].reference_number = bills[1].reference_number

\* the bills a step moved to PAID
NewlyPaid == {pk \in 1..Len(bills) : bills[pk].status # PAID /\ bills'[pk].status = PAID}

\* C11: the count.  A call of process_payments that returns, returns the
\* number of bills whose status it changed to PAID: two bills paid by one row
\* count as two, a bill that two rows of the statement match counts once, and
\* a bill that was PAID before the call does not count.
PaymentsCountIsExact ==
    [][last'.op = "process_payments" /\ last'.data.raised = "" =>
          /\ Len(bills') = Len(bills)
          /\ last'.data.paid_bills_count = Cardinality(NewlyPaid)]_vars
\* a call that returned 2 for two SENT bills with the same amount, IBAN,
\* currency and reference, both of them paid
PaymentsCountIsExact_witness ==
    /\ last.op = "process_payments" /\ last.data.raised = "" /\ last.data.paid_bills_count = 2
    /\ Len(bills) = 2
    /\ \A pk \in 1..2 : bills[pk].status = PAID /\ bills[pk].paid_at = Some(1)
    /\ bills[1].reference_number = bills[2].reference_number
    /\ bills[1].amount = bills[2].amount /\ bills[1].currency = bills[2].currency
    /\ bills[1].creditor = bills[2].creditor

\* C12: reconciliation is idempotent.  For every statement and every table,
\* processing the statement again on the table its first processing left
\* counts 0 bills and leaves every bill, its status and its paid_at, as the
\* first processing left it.
PaymentsAreIdempotent ==
    \A df \in StatementsPay :
        LET first == process_payments(df, bills, creditors)
            second == process_payments(df, first.bills, creditors)
        IN /\ second.paid_bills_count = 0
           /\ second.bills = first.bills
           /\ second.raised = first.raised
\* the second of two reconciliation runs in a row: it found nothing to pay,
\* and the bill the statements name is PAID on the date of its row
PaymentsAreIdempotent_witness ==
    /\ last.op = "process_payments" /\ last.rep
    /\ last.data.raised = "" /\ last.data.paid_bills_count = 0
    /\ \E pk \in 1..Len(bills) :
          /\ bills[pk].status = PAID /\ bills[pk].paid_at = Some(1)
          /\ bills[pk].reference_number = Manual_Bill_reference[0]

\* no row of rows agrees with a SENT or OVERDUE bill
Outstanding(bill) == bill.status \in {SENT, OVERDUE}
NoMatch(rows) ==
    \A i \in 1..Len(rows), pk \in 1..Len(bills) :
        ~(~Unreadable(rows[i]) /\ Outstanding(bills[pk]) /\ Agree(bills[pk], rows[i]))
AllReadable(rows) == \A i \in 1..Len(rows) : ~Unreadable(rows[i])

after_first(t, sep) ==
    LET first == CHOOSE i \in SepAt(t, sep) : \A j \in SepAt(t, sep) : i <= j
    IN SubSeq(t, first + 1, Len(t))

\* the token of a row as everything after the first ':' without its spaces
all_after_first_colon(row) == replace_none(after_first(Val(row.Descrizione1), ":"), " ")

\* C14: for every row under the marker, the reference used for matching is
\* everything after the first ':' of the description with the spaces
\* removed, also where the description holds a further ':' after the first
\* or a ':' before the marker: a call pays a bill exactly when the bill is
\* SENT or OVERDUE and agrees with a row on amount, creditor IBAN, currency
\* and that token.
ReferenceIsAllAfterFirstColon ==
    \A df \in StatementsRef :
        LET run == process_payments(df, bills, creditors)
            rows == MarkedRows(df)
        IN \A pk \in 1..Len(bills) :
              (bills[pk].status # PAID /\ run.bills[pk].status = PAID)
              <=> /\ Outstanding(bills[pk])
                  /\ \E i \in 1..Processed(rows) :
                        Agree(bills[pk],
                              [rows[i] EXCEPT !.reference_number = all_after_first_colon(rows[i])])

\* ---- forward-fill
\* the nearest non-blank cell of column c at or above row i of df, if any
NearestAbove(df, i, c) ==
    LET filled == {j \in 1..i : ~IsNone(df[j][c])}
    IN IF filled = {} THEN None
       ELSE df[CHOOSE j \in filled : \A k \in filled : k <= j][c]
\* row i of df with every cell so filled, and its reference
FilledRow(df, i) ==
    [Data_dell_operazione |-> NearestAbove(df, i, "Data_dell_operazione"),
     Importo_singolo |-> NearestAbove(df, i, "Importo_singolo"),
     Moneta |-> NearestAbove(df, i, "Moneta"),
     Descrizione1 |-> NearestAbove(df, i, "Descrizione1"),
     Descrizione2 |-> NearestAbove(df, i, "Descrizione2"),
     reference_number |-> extract_reference_number(Val(NearestAbove(df, i, "Descrizione1")))]
\* the rows of df that are under the marker once filled
MarkedAfterFill(df) ==
    {i \in 1..Len(df) :
        /\ ~IsNone(NearestAbove(df, i, "Descrizione1"))
        /\ contains(Val(NearestAbove(df, i, "Descrizione1")), SCOR)}
\* those of them the call gets to: the ones before the first that cannot be read
ReachedAfterFill(df) ==
    {i \in MarkedAfterFill(df) :
        \A j \in MarkedAfterFill(df) : j <= i => ~Unreadable(FilledRow(df, j))}

\* C15: forward-fill comes before the filter and covers every column.  A
\* row counts as under the marker, and is matched, by its cells after each
\* blank one took the nearest value above it in its column, whether or not
\* the row that value comes from is under the marker: a SENT or OVERDUE bill
\* is paid exactly when such a row agrees with it, and its paid_at is the
\* filled date of the first such row.
FillsBeforeFiltering ==
    \A df \in StatementsFill :
        LET run == process_payments(df, bills, creditors)
        IN \A pk \in 1..Len(bills) :
              LET hits == {i \in ReachedAfterFill(df) :
                              Outstanding(bills[pk]) /\ Agree(bills[pk], FilledRow(df, i))}
                  first == CHOOSE i \in hits : \A j \in hits : i <= j
              IN run.bills[pk] =
                     IF hits = {} THEN bills[pk]
                     ELSE [bills[pk] EXCEPT
                              !.status = PAID,
                              !.paid_at = Some(Val(Timestamp(
                                  FilledRow(df, first).Data_dell_operazione).value))]
\* a bill paid in month 1: the only row under the marker has no date, amount,
\* currency or IBAN of its own, and the date of month 1 stands in a row
\* without the marker
FillsBeforeFiltering_witness ==
    /\ last.op = "process_payments" /\ last.data.raised = "" /\ last.data.paid_bills_count = 1
    /\ \E pk \in 1..Len(bills) :
          bills[pk].status = PAID /\ bills[pk].paid_at = Some(1) /\ bills[pk].currency = "CHF"

\* C16: no bill is left half-updated.  In every state a bill is PAID exactly
\* when it has a paid_at.  For every statement, also one whose processing
\* fails at a row that cannot be read, a bill the call moved to PAID has the
\* operation date of a processed row that agrees with it as its paid_at and
\* is otherwise as before, and any other bill is as it was.
NoHalfUpdatedBill ==
    /\ \A pk \in 1..Len(bills) : bills[pk].status = PAID <=> ~IsNone(bills[pk].paid_at)
    /\ \A df \in StatementsPay :
          LET run == process_payments(df, bills, creditors)
              rows == MarkedRows(df)
          IN \A pk \in 1..Len(bills) :
                IF bills[pk].status # PAID /\ run.bills[pk].status = PAID
                THEN \E i \in 1..Processed(rows) :
                        /\ Agree(bills[pk], rows[i])
                        /\ run.bills[pk] =
                              [bills[pk] EXCEPT
                                  !.status = PAID,
                                  !.paid_at = Some(Val(Timestamp(rows[i].Data_dell_operazione).value))]
                ELSE run.bills[pk] = bills[pk]
\* the state a failed call left: one bill paid on the date of its row before
\* the call raised, and a SENT bill without a paid_at
NoHalfUpdatedBill_witness ==
    /\ last.op = "process_payments" /\ last.data.raised # "" /\ last.data.paid_bills_count = 1
    /\ \E pk \in 1..Len(bills) : bills[pk].status = PAID /\ bills[pk].paid_at = Some(1)
    /\ \E pk \in 1..Len(bills) : bills[pk].status = SENT /\ IsNone(bills[pk].paid_at)

\* ---- sending: what a step of SendPendingBillsAPIView.post did
\* the places of the trace where send_bill_email is called
Calls(trace) == {i \in 1..Len(trace) : trace[i].ev = "send_bill_email"}
\* what the call for bill pk gave
ResultFor(trace, pk) == trace[CHOOSE i \in Calls(trace) : trace[i].pk = pk].result

OpenAt(trace, i) ==
    {j \in 1..(i - 1) :
        /\ trace[j].ev = "atomic.enter"
        /\ ~\E k \in (j + 1)..(i - 1) :
              trace[k].ev \in {"atomic.commit", "atomic.rollback"} /\ trace[k].pk = trace[j].pk}
\* the block entered at place j writes the status of its bill: a save stands
\* between its entry and its exit
WritesStatus(trace, j) ==
    \E k \in (j + 1)..Len(trace) :
        /\ trace[k].ev = "bill.save" /\ trace[k].pk = trace[j].pk
        /\ ~\E e \in (j + 1)..(k - 1) :
              trace[e].ev \in {"atomic.commit", "atomic.rollback"} /\ trace[e].pk = trace[j].pk

ReferenceFromFields(bill) ==
    reference_number_of(bill.additional_information, bill.billing_date,
                        contacts[bill.contact].email)

\* C19: the reference is generated once.  The first save of a bill leaves
\* it with a reference that is not empty: the one supplied, or else the one
\* generated from its fields.  No later step changes it: not a save after
\* the description, the billing date or the contact's email changed, and
\* not the sending, the sweep or the reconciliation.
ReferenceIsGeneratedOnce ==
    [][/\ Len(bills') >= Len(bills)
       /\ \A pk \in 1..Len(bills) : bills'[pk].reference_number = bills[pk].reference_number
       /\ \A pk \in (Len(bills) + 1)..Len(bills') :
             /\ bills'[pk].reference_number # <<>>
             /\ bills'[pk].reference_number \in
                   {RF14YOUT20250401RICCARDO, ReferenceFromFields(bills'[pk])}]_vars
\* a bill saved again after its description and billing date were changed,
\* and its contact's email as well: its reference is still the one of its
\* first fields
ReferenceIsGeneratedOnce_witness ==
    /\ last.op = "change_bill"
    /\ contacts[1].email = contact_b_email
    /\ \E pk \in 1..Len(bills) :
          /\ bills[pk].additional_information = One_off_Internet_Bill
          /\ bills[pk].billing_date = 1
          /\ bills[pk].reference_number = ReferenceMemo[<<Manual_Bill, 0, contact_fixture.email>>]
          /\ bills[pk].reference_number # ReferenceFromFields(bills[pk])

\* C20: deactivation stops generation.  A run of the orchestrator adds no
\* bill for a schedule with is_active = FALSE and leaves its row, its
\* next_billing_date included, as it was, however long ago that date was;
\* and no step, the deactivation and the later runs included, removes or
\* changes a bill there was before it.
DeactivationStopsGeneration ==
    [][/\ KeepsOldBills
       /\ last'.op = "generate" =>
             \A pk \in 1..Len(schedules) :
                 ~schedules[pk].is_active =>
                     NewBills(pk) = {} /\ schedules'[pk] = schedules[pk]]_vars
\* after a run in month 1: a schedule that billed in month 0, was switched
\* off and is due again has its one bill and its cursor where it was
DeactivationStopsGeneration_witness ==
    /\ last.op = "generate" /\ now = 1
    /\ \E pk \in 1..Len(schedules) :
          /\ ~schedules[pk].is_active
          /\ schedules[pk].next_billing_date = Some(1)
          /\ schedules[pk].description_template.kind = "text"
          /\ Cardinality({b \in 1..Len(bills) : bills[b].recurring_bill = Some(pk)}) = 1
          /\ \E b \in 1..Len(bills) :
                bills[b].recurring_bill = Some(pk) /\ bills[b].billing_date = 0

\* ---- one schedule in a run of the orchestrator
\* one application of the rule with its parameters to the date t
advance(rule, params, t) == apply_offset(t, Val(get_date_offset_instance(rule, params).value))

\* C21: the generate-and-advance step.  For a schedule that a run handled
\* without failure, the one bill persisted for it is PENDING with billing_date
\* the schedule's next_billing_date before the run, and the schedule's stored
\* next_billing_date after the run is the rule applied once to that previous
\* date, whatever the current time.
GenerateAndAdvance ==
    [][last'.op = "generate" =>
          \A pk \in DueAtStart \ NamedInErrors(last'.data) :
              LET previous == Val(schedules[pk].next_billing_date)
              IN /\ Cardinality(NewBills(pk)) = 1
                 /\ \A b \in NewBills(pk) :
                       bills'[b].billing_date = previous /\ bills'[b].status = PENDING
                 /\ schedules'[pk].next_billing_date =
                       Some(advance(schedules[pk].frequency, schedules[pk].frequency_kwargs,
                                    previous))]_vars
\* a run a month after the schedule fell due: the bill carries the earlier
\* date and the cursor stands two months after it, one month after now
GenerateAndAdvance_witness ==
    /\ last.op = "generate" /\ last.data.status = "success" /\ now = 1
    /\ \E b \in 1..Len(bills) :
          /\ bills[b].billing_date = 0 /\ bills[b].status = PENDING
          /\ ~IsNone(bills[b].recurring_bill)
          /\ LET rb == schedules[Val(bills[b].recurring_bill)]
             IN /\ kwarg_n(rb.frequency_kwargs) = 2
                /\ rb.next_billing_date = Some(2)

\* C22: RecurringBill.generate_bill().  The bill it returns is PENDING, has
\* billing_date the schedule's next_billing_date, the schedule's amount,
\* currency, language, contact and creditor, the link to the schedule and no
\* reference; the call adds or changes no row, and the schedule is as it
\* was, next_billing_date included.
GenerateBillIsUnsaved ==
    [][last'.op = "generate_bill" =>
          LET rb == schedules[last'.data.pk]
          IN /\ UNCHANGED <<bills, schedules, contacts, creditors>>
             /\ last'.data.raised = "" =>
                  LET new_bill == Val(last'.data.value)
                  IN /\ new_bill.status = PENDING
                     /\ new_bill.billing_date = Val(rb.next_billing_date)
                     /\ new_bill.amount = rb.amount
                     /\ new_bill.currency = rb.currency
                     /\ new_bill.language = rb.language
                     /\ new_bill.contact = rb.contact
                     /\ new_bill.creditor = rb.creditor
                     /\ new_bill.recurring_bill = Some(last'.data.pk)
                     /\ new_bill.reference_number = <<>>
                     /\ \A b \in 1..Len(bills') : bills'[b] # new_bill]_vars
\* the call on a paused schedule in EUR for the second contact and creditor
\* whose cursor is a month after its start: the bill carries those values,
\* and no bill is stored
GenerateBillIsUnsaved_witness ==
    /\ last.op = "generate_bill" /\ last.data.raised = ""
    /\ bills = <<>>
    /\ LET rb == schedules[last.data.pk]
           new_bill == Val(last.data.value)
       IN /\ rb.currency = "EUR" /\ rb.contact = 2 /\ rb.creditor = 2 /\ ~rb.is_active
          /\ Val(rb.next_billing_date) = rb.start_date + 1
          /\ new_bill.currency = "EUR" /\ new_bill.contact = 2
          /\ new_bill.billing_date = rb.start_date + 1

\* ---- schedules as they are created and saved
\* the row a creation appended
Created == schedules'[Len(schedules')]
Persisted == Len(schedules') = Len(schedules) + 1
     /\ \A pk \in 1..Len(schedules) : schedules'[pk] = schedules[pk]
\* the errors that are a ValidationError, by the field they are raised on
ValidationErrors == {"next_billing_date", "frequency"}

\* C23: a schedule entered with next_billing_date before start_date is
\* refused with a validation error on next_billing_date and no row is stored;
\* every row that a creation stores has next_billing_date >= start_date.
CreationChecksDates ==
    [][\A f \in ScheduleFormsCreate(now) :
          AdminCreateSchedule(f) =>
              /\ (~IsNone(f.next_billing_date) /\ Val(f.next_billing_date) < f.start_date) =>
                    last'.data.raised = "next_billing_date" /\ schedules' = schedules
              /\ schedules' # schedules =>
                    Persisted /\ Val(Created.next_billing_date) >= Created.start_date]_vars
\* a creation refused for its dates, after one with a later cursor was stored
CreationChecksDates_witness ==
    /\ last.op = "create_schedule" /\ last.data.raised = "next_billing_date"
    /\ Len(schedules) = 1
    /\ Val(schedules[1].next_billing_date) > schedules[1].start_date

\* a rule that is not on the list, or arguments with a name the rule does not
\* take or a value of the wrong type: the count n is an integer, normalize a
\* boolean
IllegalRule(frequency, frequency_kwargs) ==
    \/ frequency \notin ALLOWED_DATE_OFFSETS
    \/ \E i \in 1..Len(frequency_kwargs) :
          LET a == frequency_kwargs[i]
          IN \/ a.key \notin {"n", "normalize"}
             \/ a.key = "n" /\ a.type # "int"
             \/ a.key = "normalize" /\ a.type # "bool"
Refused == last'.data.raised \in ValidationErrors /\ schedules' = schedules

\* C24: saving a schedule whose rule is not on the list, or whose arguments
\* hold an unsupported name or a value of the wrong type, fails with a
\* validation error and stores nothing; a row that is stored carries the rule
\* and the arguments as they were entered.
SaveRefusesIllegalRules ==
    [][/\ \A f \in ScheduleFormsCreate(now) :
             AdminCreateSchedule(f) =>
                 /\ IllegalRule(f.frequency, f.frequency_kwargs) => Refused
                 /\ schedules' # schedules =>
                       /\ Persisted
                       /\ Created.frequency = f.frequency
                       /\ Created.frequency_kwargs = f.frequency_kwargs
       /\ \A pk \in 1..Len(schedules), r \in RulesCreate :
             AdminChangeSchedule(pk, r[1], r[2]) =>
                 /\ IllegalRule(r[1], r[2]) => Refused
                 /\ schedules' # schedules =>
                       schedules' = [schedules EXCEPT ![pk].frequency = r[1],
                                                      ![pk].frequency_kwargs = r[2]]]_vars

\* C25: the cursor of a new schedule.  A schedule entered with a sound rule
\* and without next_billing_date is stored with next_billing_date equal to
\* its start_date; one entered with next_billing_date at or after start_date
\* is stored with the value entered.
CursorDefaultsToStart ==
    [][\A f \in ScheduleFormsCreate(now) :
          AdminCreateSchedule(f) =>
              /\ (/\ ~IllegalRule(f.frequency, f.frequency_kwargs)
                  /\ \/ IsNone(f.next_billing_date)
                     \/ Val(f.next_billing_date) >= f.start_date)
                    => Persisted /\ last'.data.raised = ""
              /\ schedules' # schedules =>
                    /\ Persisted
                    /\ Created.start_date = f.start_date
                    /\ Created.next_billing_date =
                          IF IsNone(f.next_billing_date) THEN Some(f.start_date)
                          ELSE f.next_billing_date]_vars
\* two schedules stored in the same month, the first with its cursor at the
\* start date and the second with it a month later
CursorDefaultsToStart_witness ==
    /\ last.op = "create_schedule" /\ last.data.raised = ""
    /\ Len(schedules) = 2
    /\ schedules[1].next_billing_date = Some(schedules[1].start_date)
    /\ schedules[2].next_billing_date = Some(schedules[2].start_date + 1)
    /\ schedules[1].start_date = schedules[2].start_date

\* C26: the due date of a bill.  The first save stores due_date = billing_date
\* plus one calendar month when none was given and the value given otherwise;
\* no later save derives it again: it stays as stored when the billing date
\* changes, and stays empty when it is emptied.
DueDateIsSetOnce ==
    [][/\ \A f \in BillFormsDue(now) :
             AdminCreateBill(f, MaxBillsLife) =>
                 bills'[Len(bills')].due_date =
                     IF IsNone(f.due_date) THEN Some(f.billing_date + 1) ELSE f.due_date
       /\ \A pk \in 1..Len(bills), due \in DueDatesEntered :
             AdminChangeDueDate(pk, due) => bills'[pk].due_date = due
       /\ last'.op # "change_due_date" =>
             \A pk \in 1..Len(bills) : bills'[pk].due_date = bills[pk].due_date]_vars
\* a bill of the first month whose billing date was moved a month on in that
\* month: its due date is still a month after the first billing date
DueDateIsSetOnce_witness ==
    /\ last.op = "change_bill" /\ now = 0 /\ Len(bills) = 1
    /\ bills[1].billing_date = 1 /\ bills[1].due_date = Some(1)

\* ---- the reference of a seed
RF == <<"R", "F">>

\* C27: the round trip of the checksum.  For every seed the reference is
\* "RF", two decimal digits and the cleaned seed; the cleaned seed, "RF" and
\* the two digits, with letters mapped to numbers, leave remainder 1 modulo
\* 97; and generating the reference of the cleaned seed again gives the same
\* reference.
ChecksumRoundTrip ==
    last.op = "generate_invoice_reference" =>
        /\ last.data.raised = ""
        /\ LET reference == Val(last.data.value)
               clean == cleanup_reference(last.data.seed)
               check_digits == SubSeq(reference, 3, 4)
           IN /\ Len(reference) = 4 + Len(clean)
              /\ SubSeq(reference, 1, 2) = RF
              /\ check_digits[1] \in DigitSet /\ check_digits[2] \in DigitSet
              /\ SubSeq(reference, 5, Len(reference)) = clean
              /\ checksum(letter_to_number(clean \o RF \o check_digits)) = 1
              /\ ~generate_invoice_reference_raises(clean)
              /\ generate_invoice_reference(clean) = reference

\* C28: the form of a generated reference.  The reference of every bill is
\* "RF", two ASCII digits and at most 23 characters that are ASCII capitals or
\* digits, at most 27 characters in all; the part after the digits is the
\* first 4 cleaned characters of the description, the billing date as 8
\* digits and the first 9 cleaned characters of the contact's email.
ReferenceHasExactForm ==
    \A pk \in 1..Len(bills) :
        LET reference == bills[pk].reference_number
            seed == SubSeq(reference, 5, Len(reference))
        IN /\ Len(reference) >= 4 /\ Len(reference) <= 27
           /\ SubSeq(reference, 1, 2) = RF
           /\ reference[3] \in DigitSet /\ reference[4] \in DigitSet
           /\ Len(seed) <= 23
           /\ \A i \in 1..Len(seed) : seed[i] \in UpperSet \cup DigitSet
           /\ seed = Take(cleanup_reference(bills[pk].additional_information), 4)
                     \o strftime_Ymd(bills[pk].billing_date)
                     \o Take(cleanup_reference(contacts[bills[pk].contact].email), 9)

\* ---- the templates of schedules
\* a template that is well formed and uses only names of the context
Sound(template) == template.kind \in {"text", "billing_date.year"}

\* C29: template failures are loud.  A due schedule whose template is
\* malformed or uses a name that the context does not hold gets no bill in a
\* run: it is named in errors and its row is unchanged; no bill carries a
\* description in which such a placeholder was replaced by empty text.
TemplateFailuresAreLoud ==
    [][last'.op = "generate" =>
          \A pk \in DueAtStart :
              ~Sound(schedules[pk].description_template) =>
                  /\ NewBills(pk) = {}
                  /\ pk \in NamedInErrors(last'.data)
                  /\ schedules'[pk] = schedules[pk]]_vars

\* ---- deletions
\* whether a bill or a schedule of the tables before the step refers to row pk
ReferredTo(field, pk) ==
    \/ \E b \in 1..Len(bills) : bills[b] # Deleted /\ bills[b][field] = pk
    \/ \E s \in 1..Len(schedules) : schedules[s] # Deleted /\ schedules[s][field] = pk

\* C30: protect semantics.  Deleting a contact or a creditor that a bill or a
\* schedule refers to is refused and changes no row of any table; deleting a
\* schedule succeeds, removes that schedule alone, keeps every bill, and
\* empties the schedule link of the bills that were linked to it and of no
\* other.
DeletionProtects ==
    [][/\ last'.op = "delete_contact" /\ ReferredTo("contact", last'.data.pk) =>
             last'.data.raised # "" /\ UNCHANGED <<bills, schedules, contacts, creditors>>
       /\ last'.op = "delete_creditor" /\ ReferredTo("creditor", last'.data.pk) =>
             last'.data.raised # "" /\ UNCHANGED <<bills, schedules, contacts, creditors>>
       /\ last'.op = "delete_schedule" =>
             LET pk == last'.data.pk
             IN /\ last'.data.raised = ""
                /\ schedules' = [schedules EXCEPT ![pk] = Deleted]
                /\ UNCHANGED <<contacts, creditors>>
                /\ Len(bills') = Len(bills)
                /\ \A b \in 1..Len(bills) :
                      /\ bills'[b] # Deleted
                      /\ bills'[b] = IF bills[b].recurring_bill = Some(pk)
                                     THEN [bills[b] EXCEPT !.recurring_bill = None]
                                     ELSE bills[b]]_vars
\* a schedule was deleted and the bill linked to it is kept without the
\* link; the deletion of the contact, which only the other schedule refers
\* to, was then refused
DeletionProtects_witness ==
    /\ last.op = "delete_contact" /\ last.data.raised = "ProtectedError"
    /\ contacts[last.data.pk] # Deleted
    /\ Len(schedules) = 2 /\ schedules[1] = Deleted /\ schedules[2] # Deleted
    /\ schedules[2].contact = last.data.pk
    /\ Len(bills) = 1 /\ IsNone(bills[1].recurring_bill)
    /\ bills[1].contact # last.data.pk

\* ---- notification: what a step of NotifyOverdueBillsAPIView.post did
\* the places of the trace where send_overdue_email is called
NotifyCalls(trace) == {i \in 1..Len(trace) : trace[i].ev = "send_overdue_email"}

CursorAtStart(pk) == Val(schedules[pk].next_billing_date)
\* C32: within one run the due schedules are taken in ascending order of
\* next_billing_date: of two bills the run created, the one created first
\* belongs to the schedule whose cursor was not later, and of two entries of
\* errors the one appended first names the schedule whose cursor was not
\* later.
RunAscendsByCursor ==
    [][last'.op = "generate" =>
          LET errors == ErrorsOf(last'.data)
          IN /\ KeepsOldBills
             /\ \A b1, b2 \in (Len(bills) + 1)..Len(bills') :
                   b1 < b2 => CursorAtStart(Val(bills'[b1].recurring_bill))
                                <= CursorAtStart(Val(bills'[b2].recurring_bill))
             /\ \A e1, e2 \in 1..Len(errors) :
                   e1 < e2 => CursorAtStart(errors[e1].pk) <= CursorAtStart(errors[e2].pk)]_vars
\* a run in which the schedule added second fell due first: its bill was
\* created before the bill of the schedule added first
RunAscendsByCursor_witness ==
    /\ last.op = "generate" /\ last.data.generated_count = 2
    /\ Len(bills) = 2 /\ Len(schedules) = 2
    /\ bills[1].recurring_bill = Some(2) /\ bills[1].billing_date = 0
    /\ bills[2].recurring_bill = Some(1) /\ bills[2].billing_date = 1

\* ---- a schedule that is behind
\* C33: one run generates at most one bill for a schedule and moves its
\* cursor by exactly one step of its rule, however far behind the schedule
\* is: a due schedule the run does not report as failed has one new bill, for
\* the date its cursor held, and its cursor one step on; one reported as
\* failed has no new bill and its cursor where it was.  A schedule whose
\* cursor is still not later than now after the run is due again, so that it
\* catches up one bill per run.
OneStepPerRun ==
    [][last'.op = "generate" =>
          \A pk \in DueAtStart :
             /\ Cardinality(NewBills(pk)) <= 1
             /\ pk \notin NamedInErrors(last'.data) =>
                   /\ Cardinality(NewBills(pk)) = 1
                   /\ \A b \in NewBills(pk) : bills'[b].billing_date = CursorAtStart(pk)
                   /\ schedules'[pk].next_billing_date =
                         Some(advance(schedules[pk].frequency, schedules[pk].frequency_kwargs,
                                      CursorAtStart(pk)))
             /\ pk \in NamedInErrors(last'.data) =>
                   NewBills(pk) = {} /\ schedules'[pk] = schedules[pk]
             /\ Val(schedules'[pk].next_billing_date) <= now'
                   => pk \in due_queryset(schedules', now')
             /\ Val(schedules'[pk].next_billing_date) > now'
                   => pk \notin due_queryset(schedules', now')]_vars
\* a monthly schedule that started a month back, in the month after it was
\* added: three runs have billed its three months one by one, and the last
\* left the cursor later than now
OneStepPerRun_witness ==
    /\ last.op = "generate" /\ last.data.generated_count = 1
    /\ now = 1 /\ Len(schedules) = 1 /\ Len(bills) = 3
    /\ schedules[1].start_date = 0 - 1 /\ schedules[1].frequency_kwargs = <<>>
    /\ \A b \in 1..3 : bills[b].recurring_bill = Some(1) /\ bills[b].billing_date = b - 2
    /\ schedules[1].next_billing_date = Some(2)

\* ---- the bills of one schedule over many runs
\* C34: no two persisted bills generated from the same schedule have the
\* same billing_date, for every schedule whose rule and parameters pass
\* validation.  (Every stored schedule passed validation: RecurringBill.save()
\* stores nothing otherwise.)
NoPeriodBilledTwice ==
    \A b1, b2 \in 1..Len(bills) :
        /\ b1 # b2
        /\ ~IsNone(bills[b1].recurring_bill)
        /\ bills[b1].recurring_bill = bills[b2].recurring_bill
        => bills[b1].billing_date # bills[b2].billing_date

\* ---- runs of the orchestrator handled at the same time
\* the bills stored for schedule pk with billing date d
BillsFor(pk, d) ==
    {b \in 1..Len(bills) : bills[b].recurring_bill = Some(pk) /\ bills[b].billing_date = d}
\* C35: when the transactions of two runs interleave, a due schedule yields
\* one bill for its next_billing_date and its cursor moves one step: every
\* month from a monthly schedule's start date up to its cursor has one bill,
\* never two, and no other month has any.
ConcurrentRunsBillOnce ==
    \A pk \in 1..Len(schedules) : \A d \in 0..(MaxTime + 1) :
        Cardinality(BillsFor(pk, d)) =
            IF schedules[pk].start_date <= d /\ d < Val(schedules[pk].next_billing_date)
            THEN 1 ELSE 0

\* ---- send-pending while other requests commit
\* C36: a sweep or a reconciliation that commits between send-pending's read
\* of a PENDING bill and its write does not make the status regress: a bill
\* that is OVERDUE stays OVERDUE or becomes PAID, and a bill that is PAID
\* stays PAID, in every step, the send flow's save included.
SendDoesNotRegress ==
    [][/\ SamePks
       /\ \A pk \in 1..Len(bills) :
             /\ bills[pk].status = OVERDUE => bills'[pk].status \in {OVERDUE, PAID}
             /\ bills[pk].status = PAID => bills'[pk].status = PAID]_vars

\* ---- a bill that fell overdue before it was sent
\* the bills the step called send_bill_email or send_overdue_email for
Emailed(trace) == {trace[i].pk : i \in Calls(trace)}
Notified(trace) == {trace[i].pk : i \in NotifyCalls(trace)}
\* C37: a never-sent bill that the sweep has made OVERDUE is not emailed by
\* any later send-pending run and its sent_at stays unset; it is OVERDUE or
\* PAID from then on, the only mail about it is the overdue notification,
\* which every notification run attempts while it is OVERDUE, and it can
\* become PAID with sent_at unset.
OverdueUnsentStaysUnsent ==
    [][/\ SamePks
       /\ \A pk \in 1..Len(bills) :
             bills[pk].status \in {OVERDUE, PAID} /\ IsNone(bills[pk].sent_at) =>
                /\ IsNone(bills'[pk].sent_at)
                /\ bills'[pk].status \in {OVERDUE, PAID}
                /\ last'.op = "send_pending" => pk \notin Emailed(last'.trace)
                /\ last'.op = "notify_overdue" =>
                      (pk \in Notified(last'.trace) <=> bills[pk].status = OVERDUE)]_vars
\* a send-pending run that emailed the second bill and left the first alone:
\* the first fell overdue unsent and was paid
OverdueUnsentStaysUnsent_witness ==
    /\ last.op = "send_pending" /\ Len(bills) = 2
    /\ Emailed(last.trace) = {2} /\ bills[2].status = SENT
    /\ bills[1].status = PAID /\ IsNone(bills[1].sent_at) /\ ~IsNone(bills[1].paid_at)

\* ---- a statement whose processing fails part-way
\* C38: process_payments is not all-or-nothing across rows.  When it raises
\* at a row, a bill that was SENT or OVERDUE and agrees with a row before
\* that row is PAID with the date of the first such row as paid_at; every
\* other bill, one that agrees with that row or a later row included, is as
\* it was; and the caller gets the error and no count.
PartialPaymentsStay ==
    \A df \in StatementsPartial :
        LET run == process_payments(df, bills, creditors)
            rows == MarkedRows(df)
        IN (\E i \in 1..Len(rows) : Unreadable(rows[i])) =>
              /\ run.raised # ""
              /\ upload_csv_message(run) =
                    <<"An error occurred during payment processing:", run.raised>>
              /\ Len(run.bills) = Len(bills)
              /\ \A pk \in 1..Len(bills) :
                    LET hits == {i \in 1..Processed(rows) :
                                    bills[pk].status \in {SENT, OVERDUE} /\ Agree(bills[pk], rows[i])}
                        first == CHOOSE i \in hits : \A j \in hits : i <= j
                    IN run.bills[pk] =
                          IF hits = {} THEN bills[pk]
                          ELSE [bills[pk] EXCEPT
                                   !.status = PAID,
                                   !.paid_at = Some(Val(Timestamp(rows[first].Data_dell_operazione).value))]
\* the state a failed call left: the bill of month 0 is paid by the row
\* before the failing one, the bill of month 1, whose reference the failing
\* row carries, is as it was, and the message is the error
PartialPaymentsStay_witness ==
    /\ last.op = "process_payments" /\ last.data.raised # ""
    /\ last.data.message[1] = "An error occurred during payment processing:"
    /\ Len(bills) = 2
    /\ bills[1].reference_number = Manual_Bill_reference[0]
    /\ bills[1].status = PAID /\ bills[1].paid_at = Some(1)
    /\ bills[2].reference_number = Manual_Bill_reference[1]
    /\ bills[2].status = OVERDUE /\ IsNone(bills[2].paid_at)

\* ---- the sweep and reconciliation in either order
\* C39: when every bill is SENT, OVERDUE or PAID, the sweep followed by the
\* reconciliation of a statement leaves every bill with the same status and
\* paid_at as the reconciliation of that statement followed by the sweep at
\* the same now.
SweepAndReconcileCommute ==
    (\A pk \in 1..Len(bills) : bills[pk].status \in {SENT, OVERDUE, PAID}) =>
        \A df \in StatementsCommute :
            LET sweep_first == process_payments(df, mark_overdue(bills, now), creditors).bills
                sweep_last == mark_overdue(process_payments(df, bills, creditors).bills, now)
            IN /\ Len(sweep_first) = Len(bills) /\ Len(sweep_last) = Len(bills)
               /\ \A pk \in 1..Len(bills) :
                     /\ sweep_first[pk].status = sweep_last[pk].status
                     /\ sweep_first[pk].paid_at = sweep_last[pk].paid_at
\* after a sweep and a reconciliation: the bill of month 0, due by now, is
\* paid, and the bill of month 1, which the statement did not pay, is overdue
SweepAndReconcileCommute_witness ==
    /\ last.op = "process_payments" /\ last.data.paid_bills_count = 1
    /\ Len(bills) = 2 /\ now = 1
    /\ bills[1].status = PAID /\ bills[1].paid_at = Some(1) /\ Val(bills[1].due_date) <= now
    /\ bills[2].status = OVERDUE /\ IsNone(bills[2].paid_at)

====
